---- MODULE Spec2Model ----
(***************************************************************************)
(* Model of the mention / conversation processing pipeline of aiora:       *)
(*   - RequestQueue            (client-truth-social/src/utils.ts, both the  *)
(*                              plain variant and the API-router variant    *)
(*                              with the fixed inter-task delay)            *)
(*   - buildConversationThread (client-truth-social/src/utils.ts)           *)
(*   - MentionProcessor        (core/src/mentions-processor.ts)             *)
(*   - MentionProcessor, the variant driven by setInterval                 *)
(*                             (unnamed/part_000)                           *)
(*   - RedditClient, RedditProvider and RedditPostClient                   *)
(*                             (client-reddit, unnamed/part_003)            *)
(* JavaScript runs every handler to its next await without interruption,   *)
(* so one action models the code between two suspension points.            *)
(***************************************************************************)
EXTENDS Integers, Sequences, FiniteSets, TLC

(* ------------------------------ bounds --------------------------------- *)
MaxTasks == 4
MaxPosts == 3
MaxDepthArg == 3
MaxBuilds == 2
MaxMentions == 2
MaxLoops == 2
MaxPasses == 2
MaxUpdates == 2
MaxClock == 2
MaxTimers == 2
MaxTimerPasses == 2
MaxRounds == 2

TaskIds == 1..MaxTasks
Posts == 1..MaxPosts
NoPost == 0
Calls == {1, 2}
Mentions == 1..MaxMentions
NoMention == 0
Loops == 1..MaxLoops
UpdateCalls == {1, 2}
TimerIds == 1..MaxTimers
NoTimer == 0
TimerPasses == 1..MaxTimerPasses

VARIABLES
    rqVariant,      \* "plain" (utils.ts:131-160) or "delayed" (utils.ts:180-212)
    queue,          \* RequestQueue.queue: wrappers not yet dequeued, by task id
    processing,     \* RequestQueue.processing
    executing,      \* tasks whose wrapper has been called and has not returned
    delaying,       \* number of drain loops inside the 1000 ms sleep
    dead,           \* number of drain loops that ended by an exception
    nAdded,         \* number of add() calls made so far; task ids are 1..nAdded
    taskFails,      \* taskFails[t]: the task passed to the t-th add() rejects
    started,        \* task ids in the order their execution started
    settled,        \* task ids in the order the promise returned by add settled
    promise,        \* promise[t]: state of the promise returned by the t-th add()
    waitsFor,       \* waitsFor[t]: the task whose promise task t awaits, or 0
    inReplyTo,      \* inReplyTo[p]: in_reply_to_id of post p, NoPost when unset
    bt,             \* bt[c]: the buildConversationThread call in slot c
    memories,       \* post ids that have a record in the message manager
    createCalls,    \* createCalls[p]: createMemory calls issued for post p
    nBuilds,        \* number of buildConversationThread calls begun
    isProcessing,   \* MentionProcessor.isProcessing
    lastProcessedMentionId, \* MentionProcessor.lastProcessedMentionId
    currentStatus,  \* MentionProcessor.currentStatus, the cached snapshot
    loops,          \* loops[l]: the processMentions loop begun by the l-th start()
    memRecords,     \* memRecords[m]: createMemory calls for m that succeeded
    nPasses,        \* number of poll passes begun by all loops
    usCache,        \* currentStatus as updateStatus reads and writes it
    usRemote,       \* the snapshot held by the status endpoint
    usNow,          \* the local clock read by new Date()
    usCalls,        \* usCalls[c]: the updateStatus call in slot c
    usLog,          \* the updateStatus calls made so far, in call order
    hasTwitterClient, \* runtime.clients.twitter is defined
    intervalId,     \* MentionProcessor.intervalId (part_000), NoTimer when unset
    timers,         \* the interval timers that are set and not cleared
    nTimers,        \* number of setInterval calls made so far
    tpasses,        \* tpasses[p]: the p-th processMentions call (part_000)
    nTimerPasses,   \* number of processMentions calls begun (part_000)
    stopCalled,     \* the last call of start() or stop() was stop()
    postImmediately, \* the setting POST_IMMEDIATELY is "true"
    autoPost,       \* the setting REDDIT_AUTO_POST is "true"
    redditStart,    \* position of RedditClient.start()
    stopProcessing, \* stopProcessing[i]: the flag of RedditPostClient i
    postingLoop,    \* postingLoop[i]: the startPostingLoop call of client i
    generated       \* generated[i]: generateNewPost calls made by client i

rqVars == <<rqVariant, queue, processing, executing, delaying, dead, nAdded,
            taskFails, started, settled, promise, waitsFor>>

btVars == <<inReplyTo, bt, memories, createCalls, nBuilds>>

mpVars == <<isProcessing, lastProcessedMentionId, currentStatus, loops,
            memRecords, nPasses>>

usVars == <<usCache, usRemote, usNow, usCalls, usLog>>

tpVars == <<hasTwitterClient, intervalId, timers, nTimers, tpasses,
            nTimerPasses, stopCalled>>

rdVars == <<postImmediately, autoPost, redditStart, stopProcessing,
            postingLoop, generated>>

vars == <<rqVars, btVars, mpVars, usVars, tpVars, rdVars>>

\* What an operation of one component leaves alone: the other components.
nonRQ == <<btVars, mpVars, usVars, tpVars, rdVars>>
nonBT == <<rqVars, mpVars, usVars, tpVars, rdVars>>
nonMP == <<rqVars, btVars, usVars, tpVars, rdVars>>
nonUS == <<rqVars, btVars, mpVars, tpVars, rdVars>>
nonTP == <<rqVars, btVars, mpVars, usVars, rdVars>>
nonRD == <<rqVars, btVars, mpVars, usVars, tpVars>>

(* ============================ RequestQueue ============================= *)

\* Guard of process() / processQueue(): the negation of the early return.
ShouldStartDrainNoFlag(proc, q) == Len(q) > 0
ShouldStartDrain(proc, q) == ~proc /\ Len(q) > 0

\* queue.shift(): the oldest wrapper and the remaining backlog.
DequeueLast(q) == [task |-> q[Len(q)], rest |-> SubSeq(q, 1, Len(q) - 1)]
Dequeue(q) == [task |-> Head(q), rest |-> Tail(q)]

\* The wrapper pushed by add(): try { resolve(await task()) } catch { reject }.
SettleAsResolved(fails) == "resolved"
SettleAs(fails) == IF fails THEN "rejected" ELSE "resolved"

\* Whether the wrapper itself rejects: it catches every failure of the task.
WrapperThrowsOnFailure(fails) == fails
WrapperThrows(fails) == FALSE

\* Loop condition of the drain: while (this.queue.length > 0).
DrainOnce(q) == FALSE
DrainContinues(q) == Len(q) > 0

\* Number of drain loops that are active (awaiting a task or the delay).
ActiveDrains == Cardinality(executing) + delaying

\* One evaluation of the while condition by a drain that is not awaiting:
\* dequeue and call the next wrapper, or leave the loop and clear the flag.
DrainStep(q, ex, proc) ==
    IF DrainContinues(q)
    THEN /\ queue' = Dequeue(q).rest
         /\ executing' = ex \cup {Dequeue(q).task}
         /\ started' = Append(started, Dequeue(q).task)
         /\ processing' = proc
    ELSE /\ queue' = q
         /\ executing' = ex
         /\ started' = started
         /\ processing' = FALSE

\* add(task): push the wrapper, then call process(), which runs synchronously
\* up to its first await (the call of the first wrapper).
Add(f) ==
    /\ nAdded < MaxTasks
    /\ nAdded' = nAdded + 1
    /\ taskFails' = [taskFails EXCEPT ![nAdded + 1] = f]
    /\ LET q == Append(queue, nAdded + 1) IN
       IF ShouldStartDrain(processing, q)
       THEN /\ q # <<>>
            /\ queue' = Dequeue(q).rest
            /\ executing' = executing \cup {Dequeue(q).task}
            /\ started' = Append(started, Dequeue(q).task)
            /\ processing' = TRUE
       ELSE /\ queue' = q
            /\ UNCHANGED <<executing, started, processing>>
    /\ UNCHANGED <<rqVariant, delaying, dead, settled, promise, waitsFor>>
    /\ UNCHANGED nonRQ

\* A task that runs something of its own queue at once, inside the task.
AddFromTaskRunsAtOnce(t, f) ==
    /\ t \in executing
    /\ waitsFor[t] = 0
    /\ nAdded < MaxTasks
    /\ nAdded' = nAdded + 1
    /\ taskFails' = [taskFails EXCEPT ![nAdded + 1] = f]
    /\ waitsFor' = [waitsFor EXCEPT ![t] = nAdded + 1]
    /\ executing' = executing \cup {nAdded + 1}
    /\ started' = Append(started, nAdded + 1)
    /\ UNCHANGED <<rqVariant, queue, processing, delaying, dead, settled,
                   promise>>
    /\ UNCHANGED nonRQ

\* The running task t calls add(task) on the queue that runs it and awaits
\* the promise add() returns: the wrapper is pushed, process() returns at
\* its first line because processing is true, and t is suspended.
AddFromTask(t, f) ==
    /\ t \in executing
    /\ waitsFor[t] = 0
    /\ nAdded < MaxTasks
    /\ nAdded' = nAdded + 1
    /\ taskFails' = [taskFails EXCEPT ![nAdded + 1] = f]
    /\ waitsFor' = [waitsFor EXCEPT ![t] = nAdded + 1]
    /\ LET q == Append(queue, nAdded + 1) IN
       IF ShouldStartDrain(processing, q)
       THEN /\ q # <<>>
            /\ queue' = Dequeue(q).rest
            /\ executing' = executing \cup {Dequeue(q).task}
            /\ started' = Append(started, Dequeue(q).task)
            /\ processing' = TRUE
       ELSE /\ queue' = q
            /\ UNCHANGED <<executing, started, processing>>
    /\ UNCHANGED <<rqVariant, delaying, dead, settled, promise>>
    /\ UNCHANGED nonRQ

\* A drain that takes the next task as soon as the running one finishes,
\* in both variants.
FinishWithoutDelay(t) ==
    /\ t \in executing
    /\ waitsFor[t] # 0 => promise[waitsFor[t]] # "pending"
    /\ promise' = [promise EXCEPT ![t] = SettleAs(taskFails[t])]
    /\ settled' = Append(settled, t)
    /\ DrainStep(queue, executing \ {t}, processing)
    /\ UNCHANGED <<delaying, dead>>
    /\ UNCHANGED <<rqVariant, nAdded, taskFails, waitsFor>>
    /\ UNCHANGED nonRQ

\* The running task t finishes (a task that awaits a promise finishes only
\* once that promise has settled): its wrapper settles the promise of add()
\* and returns, and the drain that awaited it resumes.
Finish(t) ==
    /\ t \in executing
    /\ waitsFor[t] # 0 => promise[waitsFor[t]] # "pending"
    /\ promise' = [promise EXCEPT ![t] = SettleAs(taskFails[t])]
    /\ settled' = Append(settled, t)
    /\ IF rqVariant = "delayed"
       THEN \* try { await request() } catch { log }; then the 1000 ms sleep
            /\ delaying' = delaying + 1
            /\ executing' = executing \ {t}
            /\ UNCHANGED <<queue, started, processing, dead>>
       ELSE IF WrapperThrows(taskFails[t])
            THEN \* process() has no try/catch: the loop ends, the flag stays
                 /\ dead' = dead + 1
                 /\ executing' = executing \ {t}
                 /\ UNCHANGED <<queue, started, processing, delaying>>
            ELSE /\ DrainStep(queue, executing \ {t}, processing)
                 /\ UNCHANGED <<delaying, dead>>
    /\ UNCHANGED <<rqVariant, nAdded, taskFails, waitsFor>>
    /\ UNCHANGED nonRQ

\* The fixed delay of the API-router variant elapses and the drain resumes.
DelayElapsed ==
    /\ delaying > 0
    /\ delaying' = delaying - 1
    /\ DrainStep(queue, executing, processing)
    /\ UNCHANGED <<rqVariant, dead, nAdded, taskFails, settled, promise,
                   waitsFor>>
    /\ UNCHANGED nonRQ

\* A queue of the plain variant on which add() is never called.
QuietRQ ==
    /\ rqVariant = "plain"
    /\ queue = <<>>
    /\ processing = FALSE
    /\ executing = {}
    /\ delaying = 0
    /\ dead = 0
    /\ nAdded = 0
    /\ taskFails = [t \in TaskIds |-> FALSE]
    /\ started = <<>>
    /\ settled = <<>>
    /\ promise = [t \in TaskIds |-> "pending"]
    /\ waitsFor = [t \in TaskIds |-> 0]

InitRQ ==
    /\ rqVariant \in {"plain", "delayed"}
    /\ queue = <<>>
    /\ processing = FALSE
    /\ executing = {}
    /\ delaying = 0
    /\ dead = 0
    /\ nAdded = 0
    /\ taskFails = [t \in TaskIds |-> FALSE]
    /\ started = <<>>
    /\ settled = <<>>
    /\ promise = [t \in TaskIds |-> "pending"]
    /\ waitsFor = [t \in TaskIds |-> 0]

NextRQ ==
    \/ \E f \in BOOLEAN : Add(f)
    \/ \E t \in TaskIds : Finish(t)
    \/ DelayElapsed


(* ======================= buildConversationThread ======================= *)

\* thread.unshift(currentPost)
PushBack(thread, p) == Append(thread, p)
Unshift(thread, p) == <<p>> \o thread

\* Early return of processThread: !currentPost || depth >= maxDepth ||
\* visited.has(currentPost.id).
StopsOnlyAboveLeaf(p, depth, maxDepth, visited) ==
    p = NoPost \/ (depth > 0 /\ depth >= maxDepth) \/ p \in visited
StopsIgnoringVisited(p, depth, maxDepth, visited) ==
    p = NoPost \/ depth >= maxDepth
StopsDepthOffByOne(p, depth, maxDepth, visited) ==
    p = NoPost \/ depth > maxDepth \/ p \in visited
Stops(p, depth, maxDepth, visited) ==
    p = NoPost \/ depth >= maxDepth \/ p \in visited

\* catch (error) { elizaLogger.error(...) } around the parent fetch: the
\* error is logged and processThread returns normally.
FetchErrorRethrown == "rejected"
OnFetchError == "resolved"

\* An exception of a memory-store await: at depth 0 nothing catches it and
\* the call rejects; deeper it is thrown inside the caller's for-await loop,
\* which sits in the try block of the parent fetch.
MemoryErrorRejects(depth) == "rejected"
OnMemoryError(depth) == IF depth = 0 THEN "rejected" ELSE OnFetchError

IdleCall ==
    [pc |-> "idle", leaf |-> NoPost, maxDepth |-> 0, cur |-> NoPost,
     depth |-> 0, thread |-> <<>>, visited |-> {}, fetchedOk |-> {},
     fetchErrAt |-> NoPost, memErrAt |-> NoPost]

\* processThread(p, depth) up to its first await, for the call record r.
Enter(r, p, depth) ==
    IF Stops(p, depth, r.maxDepth, r.visited)
    THEN [r EXCEPT !.pc = "resolved"]
    ELSE [r EXCEPT !.pc = "lookup", !.cur = p, !.depth = depth,
                   !.visited = r.visited \cup {p},
                   !.thread = Unshift(r.thread, p)]

\* The code after the memory block: if (currentPost.in_reply_to_id) start
\* the fetch of the parent, else return.
AfterMemory(r) ==
    IF inReplyTo[r.cur] # NoPost
    THEN [r EXCEPT !.pc = "fetch"]
    ELSE [r EXCEPT !.pc = "resolved"]

\* buildConversationThread(post, client, maxDepth) is called.
Begin(c, leaf, md) ==
    /\ bt[c].pc \in {"idle", "resolved", "rejected"}
    /\ nBuilds < MaxBuilds
    /\ nBuilds' = nBuilds + 1
    /\ bt' = [bt EXCEPT ![c] =
                 Enter([IdleCall EXCEPT !.leaf = leaf, !.maxDepth = md],
                       leaf, 0)]
    /\ UNCHANGED <<inReplyTo, memories, createCalls>>
    /\ UNCHANGED nonBT

\* getMemoryById returns (a record or null) or throws.
LookupReturn(c, ok) ==
    /\ bt[c].pc = "lookup"
    /\ LET r == bt[c] IN
       bt' = [bt EXCEPT ![c] =
                 IF ~ok
                 THEN [r EXCEPT !.pc = OnMemoryError(r.depth),
                                !.memErrAt = r.cur]
                 ELSE IF r.cur \in memories
                      THEN AfterMemory(r)
                      ELSE [r EXCEPT !.pc = "ensure"]]
    /\ UNCHANGED <<inReplyTo, memories, createCalls, nBuilds>>
    /\ UNCHANGED nonBT

\* ensureConnection returns or throws; on return createMemory is called.
EnsureReturn(c, ok) ==
    /\ bt[c].pc = "ensure"
    /\ IF ok
       THEN /\ bt' = [bt EXCEPT ![c].pc = "create"]
            /\ createCalls' = [createCalls EXCEPT ![bt[c].cur] = @ + 1]
       ELSE /\ bt' = [bt EXCEPT ![c].pc = OnMemoryError(bt[c].depth),
                                ![c].memErrAt = bt[c].cur]
            /\ UNCHANGED createCalls
    /\ UNCHANGED <<inReplyTo, memories, nBuilds>>
    /\ UNCHANGED nonBT

\* createMemory returns (the record is stored) or throws.
CreateReturn(c, ok) ==
    /\ bt[c].pc = "create"
    /\ IF ok
       THEN /\ memories' = memories \cup {bt[c].cur}
            /\ bt' = [bt EXCEPT ![c] = AfterMemory(bt[c])]
       ELSE /\ bt' = [bt EXCEPT ![c].pc = OnMemoryError(bt[c].depth),
                                ![c].memErrAt = bt[c].cur]
            /\ UNCHANGED memories
    /\ UNCHANGED <<inReplyTo, createCalls, nBuilds>>
    /\ UNCHANGED nonBT

\* getUserStatuses({limit: 1, sinceId: in_reply_to_id}) yields the parent
\* post, yields nothing, or throws.
FetchReturn(c, outcome) ==
    /\ bt[c].pc = "fetch"
    /\ LET r == bt[c] IN
       bt' = [bt EXCEPT ![c] =
                 CASE outcome = "post" ->
                          Enter([r EXCEPT !.fetchedOk = r.fetchedOk \cup {r.cur}],
                                inReplyTo[r.cur], r.depth + 1)
                   [] outcome = "empty" -> [r EXCEPT !.pc = "resolved"]
                   [] outcome = "error" ->
                          [r EXCEPT !.pc = OnFetchError,
                                    !.fetchErrAt = r.cur]]
    /\ UNCHANGED <<inReplyTo, memories, createCalls, nBuilds>>
    /\ UNCHANGED nonBT

\* The thread builder before any call, over an empty post graph.
QuietBT ==
    /\ inReplyTo = [p \in Posts |-> NoPost]
    /\ bt = [c \in Calls |-> IdleCall]
    /\ memories = {}
    /\ createCalls = [p \in Posts |-> 0]
    /\ nBuilds = 0

InitBT ==
    /\ inReplyTo \in [Posts -> Posts \cup {NoPost}]
    /\ bt = [c \in Calls |-> IdleCall]
    /\ memories = {}
    /\ createCalls = [p \in Posts |-> 0]
    /\ nBuilds = 0

\* Calls made one after the other by a single caller.
NextBT ==
    \/ \E leaf \in Posts \cup {NoPost}, md \in 0..MaxDepthArg : Begin(1, leaf, md)
    \/ \E ok \in BOOLEAN : LookupReturn(1, ok)
    \/ \E ok \in BOOLEAN : EnsureReturn(1, ok)
    \/ \E ok \in BOOLEAN : CreateReturn(1, ok)
    \/ \E outcome \in {"post", "empty", "error"} : FetchReturn(1, outcome)


(* =========================== MentionProcessor ========================== *)

\* Texts a generateText call can return: a text, a whitespace-only text, or
\* the empty text.  "none" is an absent (undefined) field.
GenTexts == {"text", "blank", "empty"}

\* Results drawn for the thoughts call and for the response call.  Thoughts
\* are stored as returned and only ever tested for truthiness, which the
\* texts "text" and "empty" cover; the response is trimmed before any use.
ThoughtTexts == {"text", "empty"}
ReplyTexts == GenTexts

\* String.prototype.trim on those texts.
Trim(x) == IF x = "blank" THEN "empty" ELSE x

\* JavaScript truthiness of an optional string field.
Truthy(x) == x \notin {"none", "empty"}

\* A TwitterMention: its id, its text (which stands for the fields the
\* source sets: conversationId, userId, timestamp, text) and the two
\* optional fields.
Mention(id, r, t) ==
    [id |-> id, text |-> "tweet", response |-> r, thoughts |-> t]

\* currentStatus = null, as the constructor leaves it.
NullStatus ==
    [isNull |-> TRUE, hasProfile |-> FALSE, currentTask |-> "none",
     mentions |-> <<>>, recentMemories |-> {}]

\* A snapshot assigned to processor['currentStatus'] before start(), holding
\* the mentions ms (distinct ids) and the twitter and recentProfile parts.
LoadedStatus(ms) ==
    [isNull |-> FALSE, hasProfile |-> TRUE, currentTask |-> "idle",
     mentions |-> ms, recentMemories |-> {}]

\* Mention lists of a snapshot: ids 1..n in order, each mention without
\* response and thoughts or with both.
InitialMentionLists ==
    UNION { { [i \in 1..n |-> IF i \in done
                              THEN Mention(i, "text", "text")
                              ELSE Mention(i, "none", "none")] :
              done \in SUBSET (1..n) } : n \in 1..MaxMentions }

\* updateStatus(update) for an update that carries only currentTask: the
\* merge { ...this.currentStatus, ...update, lastUpdate } made before the
\* POST is awaited.
MergeTask(st, task) == [st EXCEPT !.isNull = FALSE, !.currentTask = task]

\* A final update that carries currentTask and recentMemories only.
MergeProcessedWithoutProfile(st, m, resp, th) ==
    [st EXCEPT !.isNull = FALSE,
               !.currentTask = "Mention processed",
               !.recentMemories = st.recentMemories \cup {m}]

\* A final update whose mentions list holds the reviewed mention only.
MergeProcessedAlone(st, m, resp, th) ==
    [st EXCEPT !.isNull = FALSE,
               !.currentTask = "Mention processed",
               !.recentMemories = st.recentMemories \cup {m},
               !.mentions = <<Mention(m, resp, th)>>]

\* The merge of the final update of reviewMention: currentTask,
\* recentMemories with the new memory appended, and recentProfile.mentions
\* mapped so that the entry with the mention's id gets response and thoughts.
\* recentMemories is kept as the ids of the memories it holds; the text,
\* response and thoughts of a memory are those written to the mention here.
\* resp is the trimmed response.
MergeProcessed(st, m, resp, th) ==
    [st EXCEPT !.isNull = FALSE,
               !.currentTask = "Mention processed",
               !.recentMemories = st.recentMemories \cup {m},
               !.mentions = [i \in 1..Len(st.mentions) |->
                                IF st.mentions[i].id = m
                                THEN [st.mentions[i] EXCEPT
                                         !.response = resp,
                                         !.thoughts = th]
                                ELSE st.mentions[i]]]

\* The skip check of reviewMention: mentions.find(m => m.id === mention.id
\* && m.response && m.thoughts).
AlreadyProcessedNever(st, id) == FALSE
AlreadyProcessed(st, id) ==
    \E i \in 1..Len(st.mentions) :
        /\ st.mentions[i].id = id
        /\ Truthy(st.mentions[i].response)
        /\ Truthy(st.mentions[i].thoughts)

RECURSIVE Scan(_, _, _, _)
\* The for loop of processMentions from index i of the captured list, up to
\* the first mention that reviewMention does not skip: a mention equal to the
\* cursor is passed over, one that reviewMention returns from at once
\* becomes the cursor.
Scan(list, i, cursor, st) ==
    IF i > Len(list)
    THEN [idx |-> i, cursor |-> cursor]
    ELSE IF cursor = list[i]
         THEN Scan(list, i + 1, cursor, st)
         ELSE IF AlreadyProcessed(st, list[i])
              THEN Scan(list, i + 1, list[i], st)
              ELSE [idx |-> i, cursor |-> cursor]

\* A loop record.  Besides the position and the locals of processMentions
\* and reviewMention it keeps what the loop has done: gens, the generateText
\* calls issued by the review in progress; replyPrompt, the thoughts text
\* interpolated into the prompt of the reply call; err, the kind of the error
\* that abandoned the pass; failedGen, the mentions whose review failed in a
\* generateText call and which this loop has not begun to review again;
\* failedMem, the same for the reviews that failed in createMemory.
IdleLoop ==
    [pc |-> "none", list |-> <<>>, idx |-> 0, thoughts |-> "none",
     response |-> "none", seenResolved |-> {}, calledFor |-> {},
     gens |-> <<>>, replyPrompt |-> "none", err |-> "none", failedGen |-> {},
     failedMem |-> {}]

\* responsePrompt: `Based on these thoughts:\n${thoughtsResponse.response}...`
ReplyPromptWithoutThoughts(th) == "none"
ReplyPrompt(th) == th

\* lastProcessedMentionId when reviewMention(mention) throws: the assignment
\* after the await is not reached.
CursorOnThrowAdvanced(cursor, m) == m
CursorOnThrow(cursor, m) == cursor

\* The sleep taken by the catch block of processMentions.
WaitAfterErrorPolling == "sleepPoll"
WaitAfterError == "sleepRetry"

\* The mention a loop is reviewing.
Current(lp) == lp.list[lp.idx]

\* Ids whose cached entry has both response and thoughts populated.
ResolvedIds(st) ==
    {st.mentions[i].id : i \in {j \in 1..Len(st.mentions) :
        Truthy(st.mentions[j].response) /\ Truthy(st.mentions[j].thoughts)}}

\* The top of the while loop with isProcessing true: a pass begins with
\* updateStatus({currentTask: 'Checking for mentions'}), merged and POSTed.
EnterPass(l, lp) ==
    /\ nPasses < MaxPasses
    /\ nPasses' = nPasses + 1
    /\ currentStatus' = MergeTask(currentStatus, "Checking for mentions")
    /\ loops' = [loops EXCEPT ![l] =
                    [lp EXCEPT !.pc = "postCheck", !.list = <<>>, !.idx = 0,
                               !.seenResolved = {}, !.calledFor = {},
                               !.gens = <<>>, !.replyPrompt = "none",
                               !.err = "none"]]

\* The catch block of processMentions: updateStatus({currentTask: 'Error:
\* ...'}), merged and POSTed.
PassCatch(l, cause) ==
    /\ currentStatus' = MergeTask(currentStatus, "Error")
    /\ loops' = [loops EXCEPT ![l].pc = "postErrPass", ![l].err = cause,
                              ![l].gens = <<>>, ![l].replyPrompt = "none"]

\* The catch block of reviewMention: updateStatus({currentTask: 'Error
\* processing mention: ...'}), merged and POSTed.
ReviewCatch(l, cause) ==
    /\ currentStatus' = MergeTask(currentStatus, "Error processing mention")
    /\ lastProcessedMentionId' =
           CursorOnThrow(lastProcessedMentionId, Current(loops[l]))
    /\ loops' = [loops EXCEPT
                    ![l].pc = "postErrRev",
                    ![l].err = cause,
                    ![l].failedGen = IF cause = "generation"
                                     THEN @ \cup {Current(loops[l])}
                                     ELSE @,
                    ![l].failedMem = IF cause = "memory"
                                     THEN @ \cup {Current(loops[l])}
                                     ELSE @]

\* The for loop resumed at index i with the given cursor: it runs to the
\* next mention that needs a review and starts it (updateStatus 'Processing
\* mention', merged and POSTed), or ends the pass and sleeps pollingInterval.
Continue(l, list, i, cursor) ==
    LET s == Scan(list, i, cursor, currentStatus)
        examined == {list[j] : j \in {k \in 1..Len(list) : i <= k /\ k <= s.idx}}
        seen == loops[l].seenResolved
                    \cup (examined \cap ResolvedIds(currentStatus))
    IN  /\ lastProcessedMentionId' = s.cursor
        /\ IF s.idx > Len(list)
           THEN /\ loops' = [loops EXCEPT ![l].pc = "sleepPoll",
                                          ![l].list = list,
                                          ![l].idx = s.idx,
                                          ![l].seenResolved = seen]
                /\ UNCHANGED currentStatus
           ELSE /\ loops' = [loops EXCEPT ![l].pc = "postProc",
                                          ![l].list = list,
                                          ![l].idx = s.idx,
                                          ![l].thoughts = "none",
                                          ![l].response = "none",
                                          ![l].seenResolved = seen,
                                          ![l].gens = <<>>,
                                          ![l].replyPrompt = "none",
                                          ![l].failedGen = @ \ {list[s.idx]},
                                          ![l].failedMem = @ \ {list[s.idx]}]
                /\ currentStatus' = MergeTask(currentStatus, "Processing mention")

\* start(): no-op while isProcessing, else set the flag and run
\* processMentions up to its first await.
Start(l) ==
    /\ ~isProcessing
    /\ loops[l].pc = "none"
    /\ \A k \in Loops : k < l => loops[k].pc # "none"
    /\ isProcessing' = TRUE
    /\ EnterPass(l, loops[l])
    /\ UNCHANGED <<lastProcessedMentionId, memRecords>>
    /\ UNCHANGED nonMP

\* stop()
Stop ==
    /\ isProcessing
    /\ isProcessing' = FALSE
    /\ UNCHANGED <<lastProcessedMentionId, currentStatus, loops, memRecords, nPasses>>
    /\ UNCHANGED nonMP

\* The POST of 'Checking for mentions' returns: the pass reads the cached
\* mention list and iterates over it.
PostCheckReturn(l, ok) ==
    /\ loops[l].pc = "postCheck"
    /\ IF ok /\ currentStatus.hasProfile
       THEN Continue(l, [i \in 1..Len(currentStatus.mentions) |->
                            currentStatus.mentions[i].id],
                     1, lastProcessedMentionId)
       ELSE \* HTTP error, or recentProfile undefined: TypeError
            /\ PassCatch(l, IF ok THEN "profile" ELSE "sync")
            /\ UNCHANGED lastProcessedMentionId
    /\ UNCHANGED <<isProcessing, memRecords, nPasses>>
    /\ UNCHANGED nonMP

\* The POST of 'Processing mention' returns: composeState is called.
PostProcReturn(l, ok) ==
    /\ loops[l].pc = "postProc"
    /\ IF ok
       THEN /\ loops' = [loops EXCEPT ![l].pc = "compose"]
            /\ UNCHANGED <<currentStatus, lastProcessedMentionId>>
       ELSE ReviewCatch(l, "sync")
    /\ UNCHANGED <<isProcessing, memRecords, nPasses>>
    /\ UNCHANGED nonMP

\* composeState returns: the first generateText call (thoughts) is issued.
ComposeReturn(l, ok) ==
    /\ loops[l].pc = "compose"
    /\ IF ok
       THEN /\ loops' = [loops EXCEPT ![l].pc = "gen1",
                            ![l].calledFor = @ \cup {Current(loops[l])},
                            ![l].gens = Append(@, "thoughts")]
            /\ UNCHANGED <<currentStatus, lastProcessedMentionId>>
       ELSE ReviewCatch(l, "compose")
    /\ UNCHANGED <<isProcessing, memRecords, nPasses>>
    /\ UNCHANGED nonMP

\* The thoughts call returns: the second generateText call (response) is
\* issued with the thoughts in its prompt.
Gen1Return(l, ok, txt) ==
    /\ loops[l].pc = "gen1"
    /\ IF ok
       THEN /\ loops' = [loops EXCEPT ![l].pc = "gen2", ![l].thoughts = txt,
                            ![l].calledFor = @ \cup {Current(loops[l])},
                            ![l].gens = Append(@, "reply"),
                            ![l].replyPrompt = ReplyPrompt(txt)]
            /\ UNCHANGED <<currentStatus, lastProcessedMentionId>>
       ELSE ReviewCatch(l, "generation")
    /\ UNCHANGED <<isProcessing, memRecords, nPasses>>
    /\ UNCHANGED nonMP

\* The response call returns: createMemory is called with the memory built
\* from response.response.trim() and the thoughts.
Gen2Return(l, ok, txt) ==
    /\ loops[l].pc = "gen2"
    /\ IF ok
       THEN /\ loops' = [loops EXCEPT ![l].pc = "mem",
                            ![l].response = Trim(txt),
                            ![l].calledFor = @ \cup {Current(loops[l])}]
            /\ UNCHANGED <<currentStatus, lastProcessedMentionId>>
       ELSE ReviewCatch(l, "generation")
    /\ UNCHANGED <<isProcessing, memRecords, nPasses>>
    /\ UNCHANGED nonMP

\* A review that carries on to the final update when createMemory throws.
MemReturnFailureSwallowed(l, ok) ==
    /\ loops[l].pc = "mem"
    /\ memRecords' = IF ok THEN [memRecords EXCEPT ![Current(loops[l])] = @ + 1]
                         ELSE memRecords
    /\ currentStatus' = MergeProcessed(currentStatus, Current(loops[l]),
                                       loops[l].response, loops[l].thoughts)
    /\ loops' = [loops EXCEPT ![l].pc = "postDone"]
    /\ UNCHANGED <<isProcessing, lastProcessedMentionId, nPasses>>
    /\ UNCHANGED nonMP

\* createMemory returns: the final update is merged into the cache and
\* POSTed.
MemReturn(l, ok) ==
    /\ loops[l].pc = "mem"
    /\ IF ok
       THEN /\ memRecords' = [memRecords EXCEPT ![Current(loops[l])] = @ + 1]
            /\ currentStatus' = MergeProcessed(currentStatus, Current(loops[l]),
                                               loops[l].response,
                                               loops[l].thoughts)
            /\ loops' = [loops EXCEPT ![l].pc = "postDone"]
            /\ UNCHANGED lastProcessedMentionId
       ELSE /\ ReviewCatch(l, "memory")
            /\ UNCHANGED memRecords
    /\ UNCHANGED <<isProcessing, nPasses>>
    /\ UNCHANGED nonMP

\* The POST of the final update returns: reviewMention returns, the cursor
\* moves to the mention and the for loop goes on.
PostDoneReturn(l, ok) ==
    /\ loops[l].pc = "postDone"
    /\ IF ok
       THEN Continue(l, loops[l].list, loops[l].idx + 1, Current(loops[l]))
       ELSE ReviewCatch(l, "sync")
    /\ UNCHANGED <<isProcessing, memRecords, nPasses>>
    /\ UNCHANGED nonMP

\* The POST made by the catch block of reviewMention returns: the original
\* error, or the POST's, is thrown into the catch block of processMentions.
PostErrRevReturn(l, ok) ==
    /\ loops[l].pc = "postErrRev"
    /\ PassCatch(l, IF ok THEN loops[l].err ELSE "sync")
    /\ UNCHANGED <<isProcessing, lastProcessedMentionId, memRecords, nPasses>>
    /\ UNCHANGED nonMP

\* The POST made by the catch block of processMentions returns: the loop
\* sleeps retryDelay, or the POST's error escapes processMentions.
PostErrPassReturn(l, ok) ==
    /\ loops[l].pc = "postErrPass"
    /\ loops' = [loops EXCEPT ![l].pc = IF ok THEN WaitAfterError ELSE "rejected"]
    /\ UNCHANGED <<isProcessing, lastProcessedMentionId, currentStatus,
                   memRecords, nPasses>>
    /\ UNCHANGED nonMP

\* A loop whose condition is not evaluated again: a pass follows every sleep.
SleepReturnIgnoringFlag(l) ==
    /\ loops[l].pc \in {"sleepPoll", "sleepRetry"}
    /\ EnterPass(l, loops[l])
    /\ UNCHANGED <<isProcessing, lastProcessedMentionId, memRecords>>
    /\ UNCHANGED nonMP

\* A sleep (pollingInterval or retryDelay) ends: the while condition is
\* evaluated, and the next pass begins or processMentions returns.
SleepReturn(l) ==
    /\ loops[l].pc \in {"sleepPoll", "sleepRetry"}
    /\ IF isProcessing
       THEN EnterPass(l, loops[l])
       ELSE /\ loops' = [loops EXCEPT ![l].pc = "exited"]
            /\ UNCHANGED <<currentStatus, nPasses>>
    /\ UNCHANGED <<isProcessing, lastProcessedMentionId, memRecords>>
    /\ UNCHANGED nonMP

\* A processor that is never started.
QuietMP ==
    /\ isProcessing = FALSE
    /\ lastProcessedMentionId = NoMention
    /\ currentStatus = NullStatus
    /\ loops = [l \in Loops |-> IdleLoop]
    /\ memRecords = [m \in Mentions |-> 0]
    /\ nPasses = 0

InitMP ==
    /\ isProcessing = FALSE
    /\ lastProcessedMentionId = NoMention
    /\ currentStatus \in {NullStatus}
                           \cup {LoadedStatus(ms) : ms \in InitialMentionLists}
    /\ loops = [l \in Loops |-> IdleLoop]
    /\ memRecords = [m \in Mentions |-> 0]
    /\ nPasses = 0

NextMP ==
    \/ \E l \in Loops : Start(l)
    \/ Stop
    \/ \E l \in Loops, ok \in BOOLEAN : PostCheckReturn(l, ok)
    \/ \E l \in Loops, ok \in BOOLEAN : PostProcReturn(l, ok)
    \/ \E l \in Loops, ok \in BOOLEAN : ComposeReturn(l, ok)
    \/ \E l \in Loops, txt \in ThoughtTexts : Gen1Return(l, TRUE, txt)
    \/ \E l \in Loops : Gen1Return(l, FALSE, "none")
    \/ \E l \in Loops, txt \in ReplyTexts : Gen2Return(l, TRUE, txt)
    \/ \E l \in Loops : Gen2Return(l, FALSE, "none")
    \/ \E l \in Loops, ok \in BOOLEAN : MemReturn(l, ok)
    \/ \E l \in Loops, ok \in BOOLEAN : PostDoneReturn(l, ok)
    \/ \E l \in Loops, ok \in BOOLEAN : PostErrRevReturn(l, ok)
    \/ \E l \in Loops, ok \in BOOLEAN : PostErrPassReturn(l, ok)
    \/ \E l \in Loops : SleepReturn(l)


(* ============================ updateStatus ============================= *)
(* MentionProcessor.updateStatus on its own, called with any partial, next  *)
(* to a status endpoint that other writers write too.  A field value is the *)
(* number of the call that wrote it.                                        *)

\* Fields of StatusUpdate next to recentProfile and lastUpdate.
StatusFields == {"currentTask", "twitter", "recentMemories"}

\* An undefined field.
Absent == 0

\* The value of a field that was set before the first call.
Injected == MaxUpdates + 1

MentionEntry(id, rev) == [id |-> id, rev |-> rev]

MentionList(n, rev) == [i \in 1..n |-> MentionEntry(i, rev)]

RECURSIVE AscendingList(_, _)
\* The mentions with the ids of S in ascending order, each at revision rev.
AscendingList(S, rev) ==
    IF S = {}
    THEN <<>>
    ELSE LET m == CHOOSE x \in S : \A y \in S : x <= y
         IN  <<MentionEntry(m, rev)>> \o AscendingList(S \ {m}, rev)

\* currentStatus = null
NullSnapshot ==
    [isNull |-> TRUE, f |-> [x \in StatusFields |-> Absent],
     hasProfile |-> FALSE, mentions |-> <<>>, lastUpdate |-> Absent]

\* A complete snapshot with n mentions, stamped t.
FullSnapshot(n, t) ==
    [isNull |-> FALSE, f |-> [x \in StatusFields |-> Injected],
     hasProfile |-> TRUE, mentions |-> MentionList(n, Absent),
     lastUpdate |-> t]

\* The partials the v-th call can pass: any subset of the fields, and with
\* recentProfile a mentions list over any subset of the mention ids.
Partials(v) ==
    { [f |-> g, withProfile |-> FALSE, mentions |-> <<>>] :
          g \in [StatusFields -> {Absent, v}] }
    \cup
    { [f |-> g, withProfile |-> TRUE, mentions |-> AscendingList(S, v)] :
          g \in [StatusFields -> {Absent, v}], S \in SUBSET Mentions }

\* The partial of the first statement of a pass:
\* updateStatus({ currentTask: 'Checking for mentions' }).
PassStartPartial(v) ==
    [f |-> [x \in StatusFields |-> IF x = "currentTask" THEN v ELSE Absent],
     withProfile |-> FALSE, mentions |-> <<>>]

\* if (!update.currentTask) ... else ...: the else branch merges and POSTs.
IsMerge(partial) == partial.f["currentTask"] # Absent

\* A merge that keeps nothing of the cached snapshot: { ...update, lastUpdate }.
MergeWithoutCached(st, partial, now) ==
    [isNull |-> FALSE,
     f |-> partial.f,
     hasProfile |-> partial.withProfile,
     mentions |-> partial.mentions,
     lastUpdate |-> now]

\* { ...this.currentStatus, ...update, lastUpdate: new Date().toISOString() }
Merge(st, partial, now) ==
    [isNull |-> FALSE,
     f |-> [x \in StatusFields |->
               IF partial.f[x] # Absent THEN partial.f[x] ELSE st.f[x]],
     hasProfile |-> partial.withProfile \/ st.hasProfile,
     mentions |-> IF partial.withProfile THEN partial.mentions ELSE st.mentions,
     lastUpdate |-> now]

IdleUpdate ==
    [pc |-> "idle", n |-> 0, partial |-> PassStartPartial(Absent),
     body |-> NullSnapshot, remoteAtBegin |-> <<>>]

InFlight(c) == usCalls[c].pc \in {"get", "post"}

\* updateStatus(partial) up to its await: the GET is sent, or the cache is
\* merged and the POST of the merged snapshot is sent.
UpdateBegin(c, partial) ==
    /\ ~InFlight(c)
    /\ Len(usLog) < MaxUpdates
    /\ usLog' = Append(usLog, [partial |-> partial, result |-> "pending",
                               stamp |-> Absent])
    /\ IF IsMerge(partial)
       THEN /\ usCache' = Merge(usCache, partial, usNow)
            /\ usCalls' = [usCalls EXCEPT ![c] =
                              [pc |-> "post", n |-> Len(usLog) + 1,
                               partial |-> partial,
                               body |-> Merge(usCache, partial, usNow),
                               remoteAtBegin |-> usRemote.mentions]]
       ELSE /\ usCache' = usCache
            /\ usCalls' = [usCalls EXCEPT ![c] =
                              [pc |-> "get", n |-> Len(usLog) + 1,
                               partial |-> partial,
                               body |-> NullSnapshot,
                               remoteAtBegin |-> usRemote.mentions]]
    /\ UNCHANGED <<usRemote, usNow>>
    /\ UNCHANGED nonUS

\* The GET returns: this.currentStatus = await response.json(), or the
\* error is rethrown.
GetReturn(c, ok) ==
    /\ usCalls[c].pc = "get"
    /\ usCache' = IF ok THEN usRemote ELSE usCache
    /\ usCalls' = [usCalls EXCEPT ![c].pc = IF ok THEN "done" ELSE "failed"]
    /\ usLog' = [usLog EXCEPT ![usCalls[c].n] =
                    [@ EXCEPT !.result = IF ok THEN "ok" ELSE "failed",
                              !.stamp = IF ok THEN usRemote.lastUpdate
                                        ELSE usCache.lastUpdate]]
    /\ UNCHANGED <<usRemote, usNow>>
    /\ UNCHANGED nonUS

\* A POST whose failure puts the remote snapshot back into the cache.
PostReturnRollingBack(c, ok) ==
    /\ usCalls[c].pc = "post"
    /\ usRemote' = IF ok THEN usCalls[c].body ELSE usRemote
    /\ usCache' = IF ok THEN usCache ELSE usRemote
    /\ usCalls' = [usCalls EXCEPT ![c].pc = IF ok THEN "done" ELSE "failed"]
    /\ usLog' = [usLog EXCEPT ![usCalls[c].n] =
                    [@ EXCEPT !.result = IF ok THEN "ok" ELSE "failed",
                              !.stamp = usCache.lastUpdate]]
    /\ UNCHANGED usNow
    /\ UNCHANGED nonUS

\* The POST returns: the endpoint has stored the body, or the error is
\* rethrown with the cache left as merged.
PostReturn(c, ok) ==
    /\ usCalls[c].pc = "post"
    /\ usRemote' = IF ok THEN usCalls[c].body ELSE usRemote
    /\ usCalls' = [usCalls EXCEPT ![c].pc = IF ok THEN "done" ELSE "failed"]
    /\ usLog' = [usLog EXCEPT ![usCalls[c].n] =
                    [@ EXCEPT !.result = IF ok THEN "ok" ELSE "failed",
                              !.stamp = usCache.lastUpdate]]
    /\ UNCHANGED <<usCache, usNow>>
    /\ UNCHANGED nonUS

\* Time passes on the local clock.
Tick ==
    /\ usNow < MaxClock
    /\ usNow' = usNow + 1
    /\ UNCHANGED <<usCache, usRemote, usCalls, usLog>>
    /\ UNCHANGED nonUS

\* Another writer adds a mention to the remote snapshot and stamps it with
\* its own clock.
RemoteWrite(t) ==
    /\ Len(usRemote.mentions) < MaxMentions
    /\ usRemote' = [usRemote EXCEPT
                       !.mentions = Append(@, MentionEntry(Len(@) + 1, Absent)),
                       !.lastUpdate = t]
    /\ UNCHANGED <<usCache, usNow, usCalls, usLog>>
    /\ UNCHANGED nonUS

\* updateStatus is never called.
QuietUS ==
    /\ usCache = NullSnapshot
    /\ usRemote = FullSnapshot(0, 1)
    /\ usNow = 1
    /\ usCalls = [c \in UpdateCalls |-> IdleUpdate]
    /\ usLog = <<>>

\* The cache is null or was assigned a snapshot stamped with the local
\* clock; the remote snapshot carries the stamp of whoever wrote it last.
InitUS ==
    /\ usCache \in {NullSnapshot}
                     \cup {FullSnapshot(n, 1) : n \in 0..MaxMentions}
    /\ usRemote \in {FullSnapshot(n, t) : n \in 0..MaxMentions, t \in 1..MaxClock}
    /\ usNow = 1
    /\ usCalls = [c \in UpdateCalls |-> IdleUpdate]
    /\ usLog = <<>>

\* Calls made one after the other, each awaited.
NextUS ==
    \/ \E partial \in Partials(Len(usLog) + 1) :
           /\ \A c \in UpdateCalls : ~InFlight(c)
           /\ UpdateBegin(1, partial)
    \/ \E ok \in BOOLEAN : GetReturn(1, ok)
    \/ \E ok \in BOOLEAN : PostReturn(1, ok)
    \/ Tick
    \/ \E t \in 1..MaxClock : RemoteWrite(t)


(* =================== MentionProcessor driven by a timer ================= *)
(* The variant of unnamed/part_000: start() sets an interval timer whose    *)
(* ticks call processMentions, and calls it once at once; a pass reads the  *)
(* status from the twitter client, asks runtime.think for thoughts on each  *)
(* mention and reports them with twitterClient.updateStatus.                *)

\* What runtime.think can do: return a text, return the empty text, throw.
ThinkResults == {"text", "empty", "fail"}

\* reviewMention when think throws: the catch block logs and returns null.
ReviewFailureRethrown(res) == IF res = "fail" THEN "throw" ELSE res
ReviewResult(res) == IF res = "fail" THEN "null" ELSE res

\* processMentions when getStatus or updateStatus throws: the catch block
\* logs, and the call returns.
PassErrorRethrown == "rejected"
OnPassError == "done"

\* stop() clears the timer that intervalId names.
ClearInterval(ts, id) == ts \ {id}

\* A processMentions call: n is the length of the mentions list, idx the
\* position of the for loop, logged what the call has logged as an error.
IdlePass == [pc |-> "none", n |-> 0, idx |-> 0, logged |-> "none"]

\* processMentions up to its first await: without a twitter client it logs
\* and returns, else getStatus is called.
EnterTimerPass(p) ==
    /\ nTimerPasses' = nTimerPasses + 1
    /\ tpasses' = [tpasses EXCEPT ![p] =
                      IF hasTwitterClient
                      THEN [IdlePass EXCEPT !.pc = "getStatus"]
                      ELSE [IdlePass EXCEPT !.pc = "done",
                                            !.logged = "client"]]

\* The for loop at index i of a list of n mentions: reviewMention calls
\* think for the mention, or the loop and the call end.
ReviewFrom(p, n, i) ==
    tpasses' = [tpasses EXCEPT ![p] =
                   IF i > n
                   THEN [@ EXCEPT !.pc = "done", !.n = n, !.idx = i]
                   ELSE [@ EXCEPT !.pc = "think", !.n = n, !.idx = i]]

\* The catch block of processMentions.
PassCaught(p) ==
    tpasses' = [tpasses EXCEPT ![p].pc = OnPassError,
                               ![p].logged = "processing"]

\* start(): setInterval, the id kept in intervalId, then the initial call of
\* processMentions.
TimerStart ==
    /\ nTimers < MaxTimers
    /\ nTimerPasses < MaxTimerPasses
    /\ nTimers' = nTimers + 1
    /\ timers' = timers \cup {nTimers + 1}
    /\ intervalId' = nTimers + 1
    /\ stopCalled' = FALSE
    /\ EnterTimerPass(nTimerPasses + 1)
    /\ UNCHANGED hasTwitterClient
    /\ UNCHANGED nonTP

\* stop(): if (this.intervalId) { clearInterval; intervalId = undefined }
TimerStop ==
    /\ ~stopCalled
    /\ stopCalled' = TRUE
    /\ IF intervalId # NoTimer
       THEN /\ timers' = ClearInterval(timers, intervalId)
            /\ intervalId' = NoTimer
       ELSE UNCHANGED <<timers, intervalId>>
    /\ UNCHANGED <<hasTwitterClient, nTimers, tpasses, nTimerPasses>>
    /\ UNCHANGED nonTP

\* pollingInterval elapses on timer t: its callback calls processMentions.
TimerTick(t) ==
    /\ t \in timers
    /\ nTimerPasses < MaxTimerPasses
    /\ EnterTimerPass(nTimerPasses + 1)
    /\ UNCHANGED <<hasTwitterClient, intervalId, timers, nTimers, stopCalled>>
    /\ UNCHANGED nonTP

\* getStatus returns a status with n mentions (none when the status or its
\* recentProfile is missing), or throws.
GetStatusReturn(p, ok, n) ==
    /\ tpasses[p].pc = "getStatus"
    /\ IF ok THEN ReviewFrom(p, n, 1) ELSE PassCaught(p)
    /\ UNCHANGED <<hasTwitterClient, intervalId, timers, nTimers,
                   nTimerPasses, stopCalled>>
    /\ UNCHANGED nonTP

\* think returns: with thoughts updateStatus is called for the mention,
\* without (null or the empty text) the for loop goes on.
ThinkReturn(p, res) ==
    /\ tpasses[p].pc = "think"
    /\ LET thoughts == ReviewResult(res) IN
       IF thoughts = "throw"
       THEN PassCaught(p)
       ELSE IF thoughts = "text"
            THEN tpasses' = [tpasses EXCEPT ![p].pc = "update"]
            ELSE IF tpasses[p].idx + 1 > tpasses[p].n
                 THEN tpasses' = [tpasses EXCEPT
                          ![p].pc = "done",
                          ![p].idx = @ + 1,
                          ![p].logged = IF thoughts = "null"
                                        THEN "review" ELSE @]
                 ELSE tpasses' = [tpasses EXCEPT
                          ![p].pc = "think",
                          ![p].idx = @ + 1,
                          ![p].logged = IF thoughts = "null"
                                        THEN "review" ELSE @]
    /\ UNCHANGED <<hasTwitterClient, intervalId, timers, nTimers,
                   nTimerPasses, stopCalled>>
    /\ UNCHANGED nonTP

\* updateStatus returns: the call sleeps retryDelay, or the error is caught.
UpdateStatusReturn(p, ok) ==
    /\ tpasses[p].pc = "update"
    /\ IF ok
       THEN tpasses' = [tpasses EXCEPT ![p].pc = "delay"]
       ELSE PassCaught(p)
    /\ UNCHANGED <<hasTwitterClient, intervalId, timers, nTimers,
                   nTimerPasses, stopCalled>>
    /\ UNCHANGED nonTP

\* The retryDelay sleep ends: the for loop goes on.
RetryDelayReturn(p) ==
    /\ tpasses[p].pc = "delay"
    /\ ReviewFrom(p, tpasses[p].n, tpasses[p].idx + 1)
    /\ UNCHANGED <<hasTwitterClient, intervalId, timers, nTimers,
                   nTimerPasses, stopCalled>>
    /\ UNCHANGED nonTP

\* A timer-driven processor that is never started.
QuietTP ==
    /\ hasTwitterClient = TRUE
    /\ intervalId = NoTimer
    /\ timers = {}
    /\ nTimers = 0
    /\ tpasses = [p \in TimerPasses |-> IdlePass]
    /\ nTimerPasses = 0
    /\ stopCalled = FALSE

InitTP ==
    /\ hasTwitterClient \in BOOLEAN
    /\ intervalId = NoTimer
    /\ timers = {}
    /\ nTimers = 0
    /\ tpasses = [p \in TimerPasses |-> IdlePass]
    /\ nTimerPasses = 0
    /\ stopCalled = FALSE

NextTP ==
    \/ TimerStart
    \/ TimerStop
    \/ \E t \in TimerIds : TimerTick(t)
    \/ \E p \in TimerPasses, n \in 0..MaxMentions : GetStatusReturn(p, TRUE, n)
    \/ \E p \in TimerPasses : GetStatusReturn(p, FALSE, 0)
    \/ \E p \in TimerPasses, res \in ThinkResults : ThinkReturn(p, res)
    \/ \E p \in TimerPasses, ok \in BOOLEAN : UpdateStatusReturn(p, ok)
    \/ \E p \in TimerPasses : RetryDelayReturn(p)

(* ============================ RedditClient ============================= *)
(* RedditClient owns a RedditProvider and a RedditPostClient; the provider  *)
(* constructs a RedditPostClient of its own.                                *)

\* The two RedditPostClient instances: provider.postClient and
\* RedditClient.postClient.
PostClients == {"provider", "client"}

\* A posting loop that has not been started.
IdlePosting == [pc |-> "none", rounds |-> 0]

\* The while condition of startPostingLoop, evaluated by the loop of client
\* i in loop record lp: the next iteration begins with the cache read, or
\* the loop is left.
LoopCheck(i, lp) ==
    IF stopProcessing[i]
    THEN [lp EXCEPT !.pc = "exited"]
    ELSE [lp EXCEPT !.pc = "cacheGet", !.rounds = lp.rounds + 1]

\* The rest of RedditClient.start() once provider.postClient.start() is
\* past its optional first post: the provider's loop begins, provider.start()
\* resolves, and with REDDIT_AUTO_POST the client's own post client is
\* started, which begins its loop.
StartLoops ==
    /\ redditStart' = "started"
    /\ postingLoop' =
           [i \in PostClients |->
               IF i = "provider" \/ autoPost
               THEN LoopCheck(i, postingLoop[i])
               ELSE postingLoop[i]]

\* RedditClient.start(): provider.start() calls postClient.start with
\* POST_IMMEDIATELY, which first awaits generateNewPost when that is set.
RedditStart ==
    /\ redditStart = "new"
    /\ IF postImmediately
       THEN /\ redditStart' = "firstPost"
            /\ generated' = [generated EXCEPT !["provider"] = @ + 1]
            /\ UNCHANGED postingLoop
       ELSE /\ StartLoops
            /\ UNCHANGED generated
    /\ UNCHANGED <<postImmediately, autoPost, stopProcessing>>
    /\ UNCHANGED nonRD

\* The generateNewPost awaited by start(postImmediately) returns (it catches
\* its own errors).
FirstPostReturn ==
    /\ redditStart = "firstPost"
    /\ StartLoops
    /\ UNCHANGED <<postImmediately, autoPost, stopProcessing, generated>>
    /\ UNCHANGED nonRD

\* RedditClient.stop(): await this.postClient.stop().
RedditStop ==
    /\ ~stopProcessing["client"]
    /\ stopProcessing' = [stopProcessing EXCEPT !["client"] = TRUE]
    /\ UNCHANGED <<postImmediately, autoPost, redditStart, postingLoop,
                   generated>>
    /\ UNCHANGED nonRD

\* cacheManager.get("reddit/lastPost") returns or throws: when the last post
\* is older than the drawn delay generateNewPost is called, else the loop
\* sleeps for the delay; on an exception it sleeps five minutes.
CacheGetReturn(i, ok, due) ==
    /\ postingLoop[i].pc = "cacheGet"
    /\ IF ok /\ due
       THEN /\ postingLoop' = [postingLoop EXCEPT ![i].pc = "generate"]
            /\ generated' = [generated EXCEPT ![i] = @ + 1]
       ELSE /\ postingLoop' = [postingLoop EXCEPT ![i].pc =
                                   IF ok THEN "sleep" ELSE "sleepError"]
            /\ UNCHANGED generated
    /\ UNCHANGED <<postImmediately, autoPost, redditStart, stopProcessing>>
    /\ UNCHANGED nonRD

\* generateNewPost returns (it catches its own errors): the loop sleeps for
\* the delay.
GenerateReturn(i) ==
    /\ postingLoop[i].pc = "generate"
    /\ postingLoop' = [postingLoop EXCEPT ![i].pc = "sleep"]
    /\ UNCHANGED <<postImmediately, autoPost, redditStart, stopProcessing,
                   generated>>
    /\ UNCHANGED nonRD

\* A sleep of the loop ends and the while condition is evaluated.
PostingSleepReturn(i) ==
    /\ postingLoop[i].pc \in {"sleep", "sleepError"}
    /\ stopProcessing[i] \/ postingLoop[i].rounds < MaxRounds
    /\ postingLoop' = [postingLoop EXCEPT ![i] = LoopCheck(i, postingLoop[i])]
    /\ UNCHANGED <<postImmediately, autoPost, redditStart, stopProcessing,
                   generated>>
    /\ UNCHANGED nonRD

\* A Reddit client that is never started.
QuietRD ==
    /\ postImmediately = FALSE
    /\ autoPost = FALSE
    /\ redditStart = "new"
    /\ stopProcessing = [i \in PostClients |-> FALSE]
    /\ postingLoop = [i \in PostClients |-> IdlePosting]
    /\ generated = [i \in PostClients |-> 0]

InitRD ==
    /\ postImmediately \in BOOLEAN
    /\ autoPost \in BOOLEAN
    /\ redditStart = "new"
    /\ stopProcessing = [i \in PostClients |-> FALSE]
    /\ postingLoop = [i \in PostClients |-> IdlePosting]
    /\ generated = [i \in PostClients |-> 0]

NextRD ==
    \/ RedditStart
    \/ FirstPostReturn
    \/ RedditStop
    \/ \E i \in PostClients, ok \in BOOLEAN, due \in BOOLEAN :
           CacheGetReturn(i, ok, due)
    \/ \E i \in PostClients : GenerateReturn(i)
    \/ \E i \in PostClients : PostingSleepReturn(i)


Init == InitRQ /\ InitBT /\ InitMP /\ InitUS /\ InitTP /\ InitRD

Next == NextRQ \/ NextBT \/ NextMP \/ NextUS \/ NextTP \/ NextRD

Spec == Init /\ [][Next]_vars

\* A queue in use while no thread is being built.
InitQueueOnly == InitRQ /\ QuietBT /\ QuietMP /\ QuietUS /\ QuietTP /\ QuietRD

SpecRQ == InitQueueOnly /\ [][NextRQ]_vars

\* A queue whose tasks may add to it and await what they added.
NextRQReentrant ==
    \/ \E f \in BOOLEAN : Add(f)
    \/ \E t \in TaskIds, f \in BOOLEAN : AddFromTask(t, f)
    \/ \E t \in TaskIds : Finish(t)
    \/ DelayElapsed

SpecRQReentrant == InitQueueOnly /\ [][NextRQReentrant]_vars

\* Every started task finishes and every delay elapses.
FairRQ ==
    /\ \A t \in TaskIds : WF_vars(Finish(t))
    /\ WF_vars(DelayElapsed)

SpecRQFair == SpecRQ /\ FairRQ

\* Thread building while the queue is unused.
InitThreadOnly == QuietRQ /\ InitBT /\ QuietMP /\ QuietUS /\ QuietTP /\ QuietRD

SpecBT == InitThreadOnly /\ [][NextBT]_vars

\* A single call.
NextBTOnce ==
    \/ \E leaf \in Posts \cup {NoPost}, md \in 0..MaxDepthArg :
           nBuilds = 0 /\ Begin(1, leaf, md)
    \/ \E ok \in BOOLEAN : LookupReturn(1, ok)
    \/ \E ok \in BOOLEAN : EnsureReturn(1, ok)
    \/ \E ok \in BOOLEAN : CreateReturn(1, ok)
    \/ \E outcome \in {"post", "empty", "error"} : FetchReturn(1, outcome)

\* The message manager may hold records of posts from earlier runs.
InitThreadPrior ==
    /\ QuietRQ
    /\ inReplyTo \in [Posts -> Posts \cup {NoPost}]
    /\ bt = [c \in Calls |-> IdleCall]
    /\ memories \in SUBSET Posts
    /\ createCalls = [p \in Posts |-> 0]
    /\ nBuilds = 0
    /\ QuietMP
    /\ QuietUS
    /\ QuietTP
    /\ QuietRD

\* A mention processor alone.
InitMentionsOnly == QuietRQ /\ QuietBT /\ InitMP /\ QuietUS /\ QuietTP /\ QuietRD

\* updateStatus alone.
InitStatusOnly == QuietRQ /\ QuietBT /\ QuietMP /\ InitUS /\ QuietTP /\ QuietRD

\* The timer-driven mention processor alone.
InitTimerOnly ==
    QuietRQ /\ QuietBT /\ QuietMP /\ QuietUS /\ InitTP /\ QuietRD

\* A Reddit client alone.
InitRedditOnly ==
    QuietRQ /\ QuietBT /\ QuietMP /\ QuietUS /\ QuietTP /\ InitRD

SpecRD == InitRedditOnly /\ [][NextRD]_vars

SpecTP == InitTimerOnly /\ [][NextTP]_vars

SpecUS == InitStatusOnly /\ [][NextUS]_vars

SpecMP == InitMentionsOnly /\ [][NextMP]_vars

SpecBTOnce == InitThreadPrior /\ [][NextBTOnce]_vars

\* Two calls made by two callers: each call slot is used once, and the
\* awaits of the two calls return in any order.
NextBTOverlap ==
    \/ \E c \in Calls, leaf \in Posts \cup {NoPost}, md \in 0..MaxDepthArg :
           bt[c].pc = "idle" /\ Begin(c, leaf, md)
    \/ \E c \in Calls, ok \in BOOLEAN : LookupReturn(c, ok)
    \/ \E c \in Calls, ok \in BOOLEAN : EnsureReturn(c, ok)
    \/ \E c \in Calls, ok \in BOOLEAN : CreateReturn(c, ok)
    \/ \E c \in Calls, outcome \in {"post", "empty", "error"} :
           FetchReturn(c, outcome)

SpecBTOverlap == InitThreadOnly /\ [][NextBTOverlap]_vars

\* A processor on which start() is not called while a loop begun by an
\* earlier start() is still inside a pass or a sleep.
NextMPAlone ==
    \/ \E l \in Loops :
           /\ \A k \in Loops : loops[k].pc \in {"none", "exited", "rejected"}
           /\ Start(l)
    \/ Stop
    \/ \E l \in Loops, ok \in BOOLEAN : PostCheckReturn(l, ok)
    \/ \E l \in Loops, ok \in BOOLEAN : PostProcReturn(l, ok)
    \/ \E l \in Loops, ok \in BOOLEAN : ComposeReturn(l, ok)
    \/ \E l \in Loops, txt \in ThoughtTexts : Gen1Return(l, TRUE, txt)
    \/ \E l \in Loops : Gen1Return(l, FALSE, "none")
    \/ \E l \in Loops, txt \in ReplyTexts : Gen2Return(l, TRUE, txt)
    \/ \E l \in Loops : Gen2Return(l, FALSE, "none")
    \/ \E l \in Loops, ok \in BOOLEAN : MemReturn(l, ok)
    \/ \E l \in Loops, ok \in BOOLEAN : PostDoneReturn(l, ok)
    \/ \E l \in Loops, ok \in BOOLEAN : PostErrRevReturn(l, ok)
    \/ \E l \in Loops, ok \in BOOLEAN : PostErrPassReturn(l, ok)
    \/ \E l \in Loops : SleepReturn(l)

SpecMPAlone == InitMentionsOnly /\ [][NextMPAlone]_vars

\* The texts of GenTexts that are not the empty string.
NonEmptyTexts == GenTexts \ {"empty"}

\* The steps of loop l when the status, generation and memory calls all
\* succeed and generateText returns a non-empty text.  The catch block of
\* reviewMention is not entered; that of processMentions is entered only by
\* the TypeError of a snapshot without recentProfile.
CalmStep(l) ==
    \/ PostCheckReturn(l, TRUE)
    \/ PostProcReturn(l, TRUE)
    \/ ComposeReturn(l, TRUE)
    \/ \E txt \in ThoughtTexts \cap NonEmptyTexts : Gen1Return(l, TRUE, txt)
    \/ \E txt \in ReplyTexts \cap NonEmptyTexts : Gen2Return(l, TRUE, txt)
    \/ MemReturn(l, TRUE)
    \/ PostDoneReturn(l, TRUE)
    \/ PostErrPassReturn(l, TRUE)
    \/ SleepReturn(l)

\* start() is called again only after the loop of the previous start() has
\* ended.
NextMPCalm ==
    \/ \E l \in Loops :
           /\ \A k \in Loops : loops[k].pc \in {"none", "exited", "rejected"}
           /\ Start(l)
    \/ Stop
    \/ \E l \in Loops : CalmStep(l)

\* Every awaited call returns and every timer fires.
FairMPCalm == WF_vars(\E l \in Loops : CalmStep(l))

SpecMPCalm == InitMentionsOnly /\ [][NextMPCalm]_vars /\ FairMPCalm

\* Two calls of one processor, the second begun while the first awaits its
\* GET or POST; the endpoint stores the bodies in the order in which the
\* POSTs are answered, which is either order.
NextUSOverlap ==
    \/ \E partial \in Partials(1) :
           /\ Len(usLog) = 0
           /\ UpdateBegin(1, partial)
    \/ \E partial \in Partials(2) :
           /\ Len(usLog) = 1
           /\ InFlight(1)
           /\ UpdateBegin(2, partial)
    \/ \E c \in UpdateCalls, ok \in BOOLEAN : GetReturn(c, ok)
    \/ \E c \in UpdateCalls, ok \in BOOLEAN : PostReturn(c, ok)

SpecUSOverlap == InitStatusOnly /\ [][NextUSOverlap]_vars

\* The steps of loop l: the return of the call or of the sleep it awaits.
LoopStep(l) ==
    \/ \E ok \in BOOLEAN : PostCheckReturn(l, ok)
    \/ \E ok \in BOOLEAN : PostProcReturn(l, ok)
    \/ \E ok \in BOOLEAN : ComposeReturn(l, ok)
    \/ \E txt \in ThoughtTexts : Gen1Return(l, TRUE, txt)
    \/ Gen1Return(l, FALSE, "none")
    \/ \E txt \in ReplyTexts : Gen2Return(l, TRUE, txt)
    \/ Gen2Return(l, FALSE, "none")
    \/ \E ok \in BOOLEAN : MemReturn(l, ok)
    \/ \E ok \in BOOLEAN : PostDoneReturn(l, ok)
    \/ \E ok \in BOOLEAN : PostErrRevReturn(l, ok)
    \/ \E ok \in BOOLEAN : PostErrPassReturn(l, ok)
    \/ SleepReturn(l)

\* Every awaited call returns, with a result or an error, and every timer
\* fires; start() and stop() are called at the caller's will.
FairMP == \A l \in Loops : WF_vars(LoopStep(l))

\* The MentionProcessor whose awaited calls all return, started again only
\* after the loop of the previous start() has ended.
SpecMPAloneFair == SpecMPAlone /\ FairMP

(* ------------------------ RequestQueue: claims ------------------------- *)

InBacklog(t) == \E i \in 1..Len(queue) : queue[i] = t

\* C3: tasks start executing in the order of the add() calls, and the
\* promises returned by add() settle in that same order, whatever the
\* duration of each task (task ids are the positions in submission order).
C3_FifoStartAndSettle ==
    /\ \A i \in 1..Len(started) : started[i] = i
    /\ \A i \in 1..Len(settled) : settled[i] = i

\* Two tasks have settled while a third runs and a fourth still waits.
C3_Witness == Len(settled) >= 2 /\ executing # {} /\ Len(queue) >= 1

\* C4: at most one task of the queue is executing and at most one drain loop
\* is active; add() while a drain is active never starts a second drain.
C4_SingleDrain ==
    /\ Cardinality(executing) <= 1
    /\ ActiveDrains <= 1
    /\ (ActiveDrains = 1) <=> processing

\* add() was called while a task was running: the new task waits.
C4_Witness == executing # {} /\ Len(queue) >= 2 /\ processing

\* C5: a failing task rejects only its own promise; every other task's
\* promise settles with that task's own outcome, and as long as a promise is
\* pending its task is running or waiting under a drain that is still active.
C5_FailureIsolation ==
    \A t \in 1..nAdded :
        /\ promise[t] = "rejected" => taskFails[t]
        /\ promise[t] = "resolved" => ~taskFails[t]
        /\ promise[t] = "pending" =>
               /\ t \in executing \/ InBacklog(t)
               /\ ActiveDrains = 1

\* A task failed, and a task added after it has run and resolved.
C5_Witness ==
    \E t, u \in 1..nAdded :
        t < u /\ promise[t] = "rejected" /\ promise[u] = "resolved"

\* C6: every task added is eventually executed and its promise settled,
\* given that started tasks finish; whenever no drain is active (processing
\* is false) the backlog is empty, so no task is stranded.
C6_NoTaskStranded ==
    /\ [](~processing => queue = <<>>)
    /\ \A t \in TaskIds : (t <= nAdded) ~> (promise[t] # "pending")

\* All tasks of a burst have settled and the drain has stopped.
C6_Witness == nAdded >= 3 /\ Len(settled) = nAdded /\ ~processing /\ queue = <<>>
(* ------------------- buildConversationThread: claims ------------------- *)

RECURSIVE ChainFrom(_, _)
\* The posts met by following in_reply_to_id from p, nearest first, up to
\* the first post without a parent or the first post met twice.
ChainFrom(p, seen) ==
    IF p = NoPost \/ p \in seen
    THEN <<>>
    ELSE <<p>> \o ChainFrom(inReplyTo[p], seen \cup {p})

RECURSIVE EndsAtRoot(_, _)
\* Following in_reply_to_id from p reaches a post without a parent and meets
\* no post twice: p is the leaf of a linear reply chain.
EndsAtRoot(p, seen) ==
    /\ p \notin seen
    /\ inReplyTo[p] = NoPost \/ EndsAtRoot(inReplyTo[p], seen \cup {p})

Reverse(sq) == [i \in 1..Len(sq) |-> sq[Len(sq) + 1 - i]]

NoDuplicates(sq) == \A i, j \in 1..Len(sq) : sq[i] = sq[j] => i = j

\* Every post of the chain that has a parent had that parent fetched.
AllAncestorsFetched(r) ==
    \A i \in 1..Len(ChainFrom(r.leaf, {})) :
        LET p == ChainFrom(r.leaf, {})[i] IN
        inReplyTo[p] # NoPost => p \in r.fetchedOk

\* C7: for a linear reply chain of N <= maxDepth posts whose ancestor fetches
\* all succeed, the returned thread is the chain oldest-first: index 0 is the
\* root and the last element is the leaf passed in.
C7_RootFirstOrder ==
    \A c \in Calls :
        LET r == bt[c] IN
        ( /\ r.pc = "resolved"
          /\ r.leaf # NoPost
          /\ EndsAtRoot(r.leaf, {})
          /\ Len(ChainFrom(r.leaf, {})) <= r.maxDepth
          /\ AllAncestorsFetched(r) )
        => /\ r.thread = Reverse(ChainFrom(r.leaf, {}))
           /\ inReplyTo[r.thread[1]] = NoPost
           /\ r.thread[Len(r.thread)] = r.leaf

\* A chain of three posts was walked to its root.
C7_Witness ==
    \E c \in Calls :
        /\ bt[c].pc = "resolved"
        /\ bt[c].leaf # NoPost
        /\ EndsAtRoot(bt[c].leaf, {})
        /\ Len(ChainFrom(bt[c].leaf, {})) >= 3
        /\ Len(ChainFrom(bt[c].leaf, {})) <= bt[c].maxDepth
        /\ AllAncestorsFetched(bt[c])
        /\ Len(bt[c].thread) >= 3

\* C8: the thread of a call never holds more than maxDepth posts, for every
\* chain length and every maxDepth >= 0.
C8_DepthBound ==
    \A c \in Calls : Len(bt[c].thread) <= bt[c].maxDepth

\* The walk was cut by maxDepth although a further, unvisited parent had
\* been fetched.
C8_Witness ==
    \E c \in Calls :
        /\ bt[c].pc = "resolved"
        /\ bt[c].maxDepth >= 2
        /\ Len(bt[c].thread) = bt[c].maxDepth
        /\ bt[c].thread[1] \in bt[c].fetchedOk
        /\ inReplyTo[bt[c].thread[1]] \notin bt[c].visited

\* Position of a running call in its walk: the recursion level, then the
\* await inside the level.
WalkPosition(r) ==
    4 * r.depth + (CASE r.pc = "lookup" -> 0
                     [] r.pc = "ensure" -> 1
                     [] r.pc = "create" -> 2
                     [] OTHER -> 3)

Walking(r) == r.pc \in {"lookup", "ensure", "create", "fetch"}

\* C9: the call terminates on every post graph, cycles included: every
\* return of an awaited call either settles the call or moves it forward in
\* its walk, each level of the walk adds a post not visited before, so the
\* walk is no deeper than the number of posts; the thread holds each post id
\* at most once.
C9_CycleSafe ==
    /\ [](\A c \in Calls :
            /\ NoDuplicates(bt[c].thread)
            /\ Len(bt[c].thread) = Cardinality(bt[c].visited)
            /\ Walking(bt[c]) => bt[c].depth + 1 = Cardinality(bt[c].visited))
    /\ [][\A c \in Calls :
            (Walking(bt[c]) /\ bt'[c] # bt[c]) =>
                \/ bt'[c].pc \in {"resolved", "rejected"}
                \/ /\ Walking(bt'[c])
                   /\ WalkPosition(bt'[c]) > WalkPosition(bt[c])]_vars

\* A two-post reply cycle was walked with maxDepth above the number of
\* posts of the cycle: the walk stopped when it met the leaf again.
C9_Witness ==
    \E c \in Calls : \E a, b \in Posts :
        /\ a # b /\ inReplyTo[a] = b /\ inReplyTo[b] = a
        /\ bt[c].pc = "resolved"
        /\ bt[c].leaf = a
        /\ bt[c].maxDepth > 2
        /\ b \in bt[c].fetchedOk
        /\ bt[c].thread = <<b, a>>

\* C10: when the fetch of a parent fails the call does not reject; it
\* returns the leaf and the ancestors resolved before the failing fetch,
\* root-first.
C10_PartialThreadOnFetchError ==
    \A c \in Calls :
        LET r == bt[c] IN
        r.fetchErrAt # NoPost =>
            /\ r.pc = "resolved"
            /\ r.thread[1] = r.fetchErrAt
            /\ r.thread[Len(r.thread)] = r.leaf
            /\ \A i \in 1..(Len(r.thread) - 1) :
                   /\ inReplyTo[r.thread[i + 1]] = r.thread[i]
                   /\ r.thread[i + 1] \in r.fetchedOk
            /\ r.thread = Reverse(SubSeq(ChainFrom(r.leaf, {}), 1, Len(r.thread)))

\* The fetch failed above the first ancestor: a partial thread of two posts.
C10_Witness ==
    \E c \in Calls :
        /\ bt[c].fetchErrAt # NoPost
        /\ bt[c].pc = "resolved"
        /\ Len(bt[c].thread) >= 2

\* C11: over calls made one after the other, createMemory is called for a
\* post only when the store holds no record for it, it is called at most
\* once per post id, and every post of a returned thread has a record.
C11_MemoryCreatedOnceAndPresent ==
    /\ [](\A p \in Posts : createCalls[p] <= 1)
    /\ [](\A c \in Calls :
            bt[c].pc = "resolved" =>
                \A i \in 1..Len(bt[c].thread) : bt[c].thread[i] \in memories)
    /\ [][\A p \in Posts :
            createCalls'[p] > createCalls[p] => p \notin memories]_vars

(* ---------------------- MentionProcessor: claims ----------------------- *)

\* C1: in every poll pass, a mention whose cached entry has both response
\* and thoughts set when the pass examines it gets no generateText call and
\* no createMemory call from that pass (seenResolved: the mentions the pass
\* found resolved when it examined them; calledFor: the mentions the pass
\* issued a generateText or createMemory call for).
C1_ResolvedMentionSkipped ==
    \A l \in Loops : loops[l].seenResolved \cap loops[l].calledFor = {}

\* A pass passed over a resolved mention and went on to issue calls for
\* another mention of the same list.
C1_Witness ==
    \E l \in Loops :
        /\ loops[l].seenResolved # {}
        /\ loops[l].calledFor # {}
        /\ loops[l].pc = "mem"

\* C2: createMemory succeeds at most once for a mention id, over all passes
\* and all start()/stop() calls, and once the cached snapshot shows the
\* mention resolved no further generateText call is issued for it.
C2_OneMemoryPerMention ==
    /\ [](\A m \in Mentions : memRecords[m] <= 1)
    /\ [][\A l \in Loops :
            ( /\ loops'[l].pc \in {"gen1", "gen2"}
              /\ loops'[l].pc # loops[l].pc )
            => Current(loops'[l]) \notin ResolvedIds(currentStatus)]_vars

\* C12: a review that succeeds for an unresolved mention issues exactly two
\* generateText calls, the thoughts call and then the reply call; the reply
\* call is issued only in the step in which the thoughts call returns a
\* result, its prompt carries that result, and when the thoughts call fails
\* the review fails with the reply call never issued.
C12_TwoStageGeneration ==
    /\ [](\A l \in Loops :
            LET lp == loops[l] IN
            /\ lp.gens \in {<<>>, <<"thoughts">>, <<"thoughts", "reply">>}
            /\ lp.pc = "gen1" => lp.gens = <<"thoughts">>
            /\ lp.pc \in {"gen2", "mem", "postDone"} =>
                   /\ lp.gens = <<"thoughts", "reply">>
                   /\ lp.thoughts \in ThoughtTexts
                   /\ lp.replyPrompt = lp.thoughts
            /\ lp.pc \in {"mem", "postDone"} => lp.response # "none")
    /\ [][\A l \in Loops :
            /\ Len(loops'[l].gens) > Len(loops[l].gens) =>
                   \/ loops[l].pc = "compose" /\ loops'[l].gens = <<"thoughts">>
                   \/ /\ loops[l].pc = "gen1"
                      /\ loops'[l].gens = <<"thoughts", "reply">>
                      /\ loops'[l].thoughts \in ThoughtTexts
            /\ (loops[l].pc = "gen1" /\ loops'[l].pc \notin {"gen1", "gen2"}) =>
                   /\ loops'[l].pc = "postErrRev"
                   /\ loops'[l].gens = <<"thoughts">>]_vars

\* A review has made both calls, created the memory and is posting its
\* final update.
C12_Witness ==
    \E l \in Loops :
        /\ loops[l].pc = "postDone"
        /\ loops[l].gens = <<"thoughts", "reply">>
        /\ loops[l].thoughts = "text"
        /\ loops[l].response = "text"

\* The steps of loop l from a failed generateText call up to the retry sleep.
GenFailureStep(l) ==
    \/ loops[l].pc \in {"gen1", "gen2"} /\ loops'[l].pc = "postErrRev"
    \/ /\ loops[l].pc \in {"postErrRev", "postErrPass"}
       /\ loops[l].err = "generation"
       /\ loops'[l] # loops[l]

Alive(lp) == lp.pc \notin {"none", "exited", "rejected"}

\* C13: when a generateText call of a review fails, the review fails and the
\* error path writes no response or thoughts for the mention, does not move
\* the cursor and creates no memory; as long as the loop has not begun to
\* review the mention again, the mention stays unresolved in the cache and
\* is not the cursor, so no skip check passes over it, and every pass that
\* runs to its end has reviewed it again.
C13_FailedGenerationRetried ==
    /\ [][\A l \in Loops :
            GenFailureStep(l) =>
                /\ lastProcessedMentionId' = lastProcessedMentionId
                /\ memRecords' = memRecords
                /\ currentStatus'.mentions = currentStatus.mentions
                /\ currentStatus'.recentMemories = currentStatus.recentMemories
                /\ loops'[l].pc \in {"postErrRev", "postErrPass",
                                     "sleepRetry", "rejected"}]_vars
    /\ [](\A l \in Loops :
            Alive(loops[l]) =>
                /\ \A m \in loops[l].failedGen :
                       /\ lastProcessedMentionId # m
                       /\ m \notin ResolvedIds(currentStatus)
                /\ loops[l].pc = "sleepPoll" => loops[l].failedGen = {})

\* The review of the second mention of the list failed in a generateText
\* call after the first mention was processed; the loop waits to retry.
C13_Witness ==
    \E l \in Loops :
        /\ loops[l].pc = "sleepRetry"
        /\ loops[l].err = "generation"
        /\ loops[l].idx = 2
        /\ loops[l].failedGen = {Current(loops[l])}
        /\ lastProcessedMentionId = loops[l].list[1]

\* C14: a pass is not abandoned by a generation failure while mentions after
\* the failed one remain: when the pass is over, the for loop has gone
\* through the whole list.
C14_PassContinuesAfterFailure ==
    \A l \in Loops :
        ( /\ loops[l].pc \in {"postErrPass", "sleepRetry", "sleepPoll"}
          /\ loops[l].err = "generation" )
        => loops[l].idx >= Len(loops[l].list)

\* Loop l issues a POST of the cached snapshot in this step; the body is the
\* snapshot as merged in the step.
IssuesPost(l) ==
    /\ loops'[l] # loops[l]
    /\ loops'[l].pc \in {"postCheck", "postProc", "postDone",
                         "postErrRev", "postErrPass"}

\* A snapshot that carries thoughts produced by the pipeline: a memory of
\* recentMemories (its content holds the thoughts), or the mention entry of
\* such a memory with its thoughts field set.
ExposesThoughts(st) ==
    \/ st.recentMemories # {}
    \/ \E i \in 1..Len(st.mentions) :
           /\ st.mentions[i].id \in st.recentMemories
           /\ st.mentions[i].thoughts # "none"

\* C15: no snapshot POSTed to the status endpoint contains thoughts produced
\* by the first generation stage.
C15_ThoughtsNeverPosted ==
    [][\A l \in Loops : IssuesPost(l) => ~ExposesThoughts(currentStatus')]_vars

\* C20: a pass abandoned by an error is followed by the retryDelay sleep
\* only, whatever failed; the pollingInterval sleep is entered only from a
\* pass whose for loop ran to its end without an error.
C20_RetryDelayAfterError ==
    /\ [](\A l \in Loops :
            /\ loops[l].pc = "sleepPoll" =>
                   loops[l].err = "none" /\ loops[l].idx > Len(loops[l].list)
            /\ loops[l].pc \in {"postErrPass", "sleepRetry"} =>
                   loops[l].err # "none")
    /\ [][\A l \in Loops :
            /\ (loops'[l].pc = "sleepPoll" /\ loops[l].pc # "sleepPoll") =>
                   loops[l].pc \in {"postCheck", "postDone"}
            /\ (loops'[l].pc = "sleepRetry" /\ loops[l].pc # "sleepRetry") =>
                   loops[l].pc = "postErrPass"
            /\ (loops[l].pc = "postErrPass" /\ loops'[l].pc # "postErrPass") =>
                   loops'[l].pc \in {"sleepRetry", "rejected"}
            /\ ( /\ loops'[l].pc = "postCheck"
                 /\ loops[l].pc \notin {"postCheck", "none"}
                 /\ loops[l].err # "none" ) =>
                   loops[l].pc = "sleepRetry"]_vars

\* A pass abandoned by a createMemory failure waits retryDelay.
C20_Witness ==
    \E l \in Loops :
        /\ loops[l].pc = "sleepRetry"
        /\ loops[l].err = "memory"
        /\ isProcessing

(* ------------------------- updateStatus: claims ------------------------ *)

\* The fields a partial can name besides currentTask.
SnapshotFields == {"twitter", "recentMemories", "recentProfile"}

\* The partial names field x.
Carries(partial, x) ==
    IF x = "recentProfile" THEN partial.withProfile ELSE partial.f[x] # Absent

\* Snapshot st holds field x with the value the partial gave it.
HoldsFrom(st, partial, x) ==
    IF x = "recentProfile"
    THEN st.hasProfile /\ st.mentions = partial.mentions
    ELSE st.f[x] = partial.f[x]

\* The call begun in this step, when the step begins a call.
BeginsCall == Len(usLog') = Len(usLog) + 1

BegunPartial == usLog'[Len(usLog')].partial

\* C16: after two calls made one after the other that both return, the
\* first with a partial naming field a and the second with a partial naming
\* another field b (and not a), with or without currentTask in either, the
\* cache holds a and b as given, and the cached lastUpdate after the second
\* call is later than after the first.
C16_SequentialMergesKeepBoth ==
    ( /\ Len(usLog) = 2
      /\ usLog[1].result = "ok"
      /\ usLog[2].result = "ok" )
    => /\ \A a, b \in SnapshotFields :
              ( /\ a # b
                /\ Carries(usLog[1].partial, a)
                /\ ~Carries(usLog[2].partial, a)
                /\ Carries(usLog[2].partial, b) )
              => /\ HoldsFrom(usCache, usLog[1].partial, a)
                 /\ HoldsFrom(usCache, usLog[2].partial, b)
       /\ usLog[2].stamp > usLog[1].stamp

\* C17: no merge leaves the cached lastUpdate earlier than it was before the
\* merge, also when the cache was loaded by a refresh from a snapshot that
\* another writer stamped.
C17_LastUpdateNeverBackward ==
    [][(BeginsCall /\ IsMerge(BegunPartial) /\ ~usCache.isNull)
          => usCache'.lastUpdate >= usCache.lastUpdate]_vars

\* C18: a merge whose partial carries a mentions list updates the cached
\* entries with the ids of the list and keeps every other cached mention,
\* unchanged and in place; the fields the partial does not name are
\* unchanged; the POSTed body is the merged snapshot.
C18_MentionsMergedById ==
    [][(BeginsCall /\ IsMerge(BegunPartial) /\ BegunPartial.withProfile)
          => /\ Len(usCache'.mentions) >= Len(usCache.mentions)
             /\ \A i \in 1..Len(usCache.mentions) :
                    LET e == usCache.mentions[i]
                        given == {j \in 1..Len(BegunPartial.mentions) :
                                     BegunPartial.mentions[j].id = e.id}
                    IN  IF given = {}
                        THEN usCache'.mentions[i] = e
                        ELSE \E j \in given :
                                 usCache'.mentions[i] = BegunPartial.mentions[j]
             /\ \A x \in StatusFields :
                    BegunPartial.f[x] = Absent => usCache'.f[x] = usCache.f[x]
             /\ \E c \in UpdateCalls :
                    usCalls'[c].pc = "post" /\ usCalls'[c].body = usCache']_vars

\* C19: the call that opens a pass, updateStatus({currentTask: 'Checking for
\* mentions'}), is a read of the remote snapshot that replaces the cache:
\* when it returns, the cached mentions are those that were present remotely
\* when the pass began.
C19_PassStartsWithRemoteRead ==
    [][\A c \in UpdateCalls :
          ( /\ InFlight(c)
            /\ usCalls[c].partial = PassStartPartial(usCalls[c].n)
            /\ usCalls'[c].pc = "done" )
          => /\ usCalls[c].pc = "get"
             /\ usCache'.mentions = usCalls[c].remoteAtBegin]_vars

(* ------------------ MentionProcessor: lifecycle claims ------------------ *)

\* The processMentions loops that have been entered and have not returned.
ActiveLoops == {l \in Loops : Alive(loops[l])}

\* C21: for any sequence of start() and stop() calls, stop() followed by
\* start() while the earlier loop is still in a pass or asleep included, at
\* most one processMentions loop is active at any time, and a start() call
\* made while isProcessing is set enters no loop.
C21_SingleActiveLoop ==
    /\ [](Cardinality(ActiveLoops) <= 1)
    /\ [][\A l \in Loops :
            (loops[l].pc = "none" /\ loops'[l].pc # "none") => ~isProcessing]_vars

\* A pass of loop l begins in this step.
PassBegins(l) == loops'[l].pc = "postCheck" /\ loops[l].pc # "postCheck"

\* C22: stop() during a pass changes nothing but the flag, so no call in
\* flight is aborted; the loop leaves only from the sleep that ends a pass,
\* and the sleep of a pass that met no error is reached with the for loop
\* past the last mention; no pass begins while the flag is clear, so a new
\* pass needs a new start(); and once the flag is clear every loop whose
\* awaited calls return ends, start() resolving unless the POST made by the
\* catch block of processMentions failed.
C22_StopLetsPassFinish ==
    /\ [][(isProcessing /\ ~isProcessing') =>
            /\ loops' = loops
            /\ currentStatus' = currentStatus
            /\ lastProcessedMentionId' = lastProcessedMentionId
            /\ memRecords' = memRecords]_vars
    /\ [][\A l \in Loops :
            /\ PassBegins(l) => (loops[l].pc = "none" \/ isProcessing)
            /\ (loops'[l].pc = "exited" /\ loops[l].pc # "exited") =>
                   /\ loops[l].pc \in {"sleepPoll", "sleepRetry"}
                   /\ ~isProcessing
            /\ (loops'[l].pc = "rejected" /\ loops[l].pc # "rejected") =>
                   loops[l].pc = "postErrPass"]_vars
    /\ [](\A l \in Loops :
            loops[l].pc = "sleepPoll" => loops[l].idx > Len(loops[l].list))
    /\ \A l \in Loops :
           (Alive(loops[l]) /\ ~isProcessing)
               ~> (~Alive(loops[l]) \/ isProcessing)

\* stop() was called while the only loop was reviewing the first of two
\* mentions; the loop has gone on to the second one.
C22_Witness ==
    /\ ~isProcessing
    /\ loops[2].pc = "none"
    /\ loops[1].pc = "gen2"
    /\ loops[1].idx = 2
    /\ Len(loops[1].list) = 2
    /\ memRecords[loops[1].list[1]] = 1

\* C23: whatever call fails, no processMentions loop returns or rejects
\* while isProcessing is set: start() stays pending until stop() is called,
\* and every failure is followed by the retryDelay sleep and another pass.
C23_LoopSurvivesErrors ==
    [][\A l \in Loops :
          (Alive(loops[l]) /\ ~Alive(loops'[l])) => ~isProcessing]_vars

\* C24: response and thoughts are written to a cached mention only in the
\* step in which createMemory for that mention returns successfully, so a
\* mention that reviewMention marked resolved has a memory; when createMemory
\* fails the error path writes nothing to the mention, creates no memory and
\* does not move the cursor, and as long as the loop has not begun to review
\* the mention again it stays unresolved and is not the cursor, so that
\* every pass that runs to its end has reviewed it again.
C24_ResolvedOnlyAfterMemory ==
    /\ [][\A i \in 1..Len(currentStatus.mentions) :
            currentStatus'.mentions[i] # currentStatus.mentions[i] =>
                \E l \in Loops :
                    /\ loops[l].pc = "mem"
                    /\ loops'[l].pc = "postDone"
                    /\ Current(loops[l]) = currentStatus.mentions[i].id
                    /\ memRecords'[Current(loops[l])]
                           = memRecords[Current(loops[l])] + 1]_vars
    /\ [](\A m \in currentStatus.recentMemories : memRecords[m] >= 1)
    /\ [][\A l \in Loops :
            (loops[l].pc = "mem" /\ loops'[l].pc # "mem"
                                 /\ memRecords' = memRecords) =>
                /\ loops'[l].pc = "postErrRev"
                /\ lastProcessedMentionId' = lastProcessedMentionId
                /\ currentStatus'.mentions = currentStatus.mentions
                /\ currentStatus'.recentMemories
                       = currentStatus.recentMemories]_vars
    /\ [](\A l \in Loops :
            Alive(loops[l]) =>
                /\ \A m \in loops[l].failedMem :
                       /\ lastProcessedMentionId # m
                       /\ m \notin ResolvedIds(currentStatus)
                /\ loops[l].pc = "sleepPoll" => loops[l].failedMem = {})

\* The first mention of the list was processed and has its memory;
\* createMemory failed for the second one and the loop waits to retry.
C24_Witness ==
    \E l \in Loops :
        /\ loops[l].pc = "sleepRetry"
        /\ loops[l].err = "memory"
        /\ loops[l].idx = 2
        /\ loops[l].failedMem = {Current(loops[l])}
        /\ memRecords[loops[l].list[1]] = 1
        /\ loops[l].list[1] \in ResolvedIds(currentStatus)

\* C25: no step of the processor removes a mention from the cached list
\* (which is the list it POSTs), adds one, moves one to another position or
\* changes a mention's id or text; a step changes at most the response and
\* thoughts of a mention.
C25_MentionsFrame ==
    [][/\ Len(currentStatus'.mentions) = Len(currentStatus.mentions)
       /\ \A i \in 1..Len(currentStatus.mentions) :
              /\ DOMAIN currentStatus'.mentions[i]
                     = DOMAIN currentStatus.mentions[i]
              /\ currentStatus'.mentions[i].id = currentStatus.mentions[i].id
              /\ currentStatus'.mentions[i].text
                     = currentStatus.mentions[i].text]_vars

\* The second of two cached mentions has been processed and the final
\* update is being POSTed, with the first mention still in the list.
C25_Witness ==
    \E l \in Loops :
        /\ loops[l].pc = "postDone"
        /\ loops[l].idx = 2
        /\ Len(currentStatus.mentions) = 2
        /\ currentStatus.mentions[2].id = Current(loops[l])
        /\ currentStatus.mentions[2].response = "text"
        /\ currentStatus.mentions[2].thoughts = "text"

(* -------------------- updateStatus: overlapping calls ------------------- *)

\* Two merges have been made, the second while the first was awaiting its
\* POST.
TwoMerges ==
    /\ Len(usLog) = 2
    /\ IsMerge(usLog[1].partial)
    /\ IsMerge(usLog[2].partial)

\* Field x is named by the partial of call i and not by that of call j.
OnlyIn(i, j, x) ==
    Carries(usLog[i].partial, x) /\ ~Carries(usLog[j].partial, x)

\* C26 as stated: when two merges overlap and the push of the second is the
\* one the endpoint stored last, the remote snapshot does not hold the
\* fields that the first merge set and the second partial did not name.
C26_SecondPushDropsFirstField ==
    ( /\ TwoMerges
      /\ usLog[1].result = "ok"
      /\ usLog[2].result = "ok"
      /\ usRemote = usCalls[2].body )
    => \A x \in SnapshotFields :
           OnlyIn(1, 2, x) => ~HoldsFrom(usRemote, usLog[1].partial, x)

\* C26, amended: the second merge is applied to the cache that the first
\* merge already changed, so a field that only the first partial names is in
\* the cache and in both POSTed bodies, and in the remote snapshot as soon
\* as either POST is answered, in whatever order; after both POSTs are
\* answered the remote snapshot is the body answered last, which, when it is
\* the first call's, lacks what the second merge set.
C26_OverlappingMergesKeepFirstField ==
    TwoMerges =>
        /\ \A x \in SnapshotFields :
               OnlyIn(1, 2, x) =>
                   /\ HoldsFrom(usCache, usLog[1].partial, x)
                   /\ HoldsFrom(usCalls[1].body, usLog[1].partial, x)
                   /\ HoldsFrom(usCalls[2].body, usLog[1].partial, x)
                   /\ ("ok" \in {usLog[1].result, usLog[2].result} =>
                          HoldsFrom(usRemote, usLog[1].partial, x))
        /\ (usLog[1].result = "ok" /\ usLog[2].result = "ok") =>
               usRemote \in {usCalls[1].body, usCalls[2].body}

\* Both overlapping merges were pushed and answered, the first one's POST
\* last: the remote snapshot holds the field only the first partial named
\* and lacks the field only the second one named, which the cache holds.
C26_Witness ==
    /\ TwoMerges
    /\ usLog[1].result = "ok"
    /\ usLog[2].result = "ok"
    /\ usRemote = usCalls[1].body
    /\ \E x, y \in SnapshotFields :
           /\ OnlyIn(1, 2, x)
           /\ OnlyIn(2, 1, y)
           /\ HoldsFrom(usRemote, usLog[1].partial, x)
           /\ ~HoldsFrom(usRemote, usLog[2].partial, y)
           /\ HoldsFrom(usCache, usLog[2].partial, y)

(* ------------------- MentionProcessor: progress claims ------------------ *)

\* The cached entry of mention m, when the cache holds one.
HasEntry(m) ==
    \E i \in 1..Len(currentStatus.mentions) : currentStatus.mentions[i].id = m

\* Both fields of the cached entry of m have been written.
BothWritten(m) ==
    \E i \in 1..Len(currentStatus.mentions) :
        /\ currentStatus.mentions[i].id = m
        /\ currentStatus.mentions[i].response # "none"
        /\ currentStatus.mentions[i].thoughts # "none"

\* No cached response is the empty string (what trim() leaves of a reply
\* made of whitespace).
NoEmptyResponse ==
    \A i \in 1..Len(currentStatus.mentions) :
        currentStatus.mentions[i].response # "empty"

\* C27: when the processor is started on a cached snapshot and every status,
\* generation and memory call succeeds with a non-empty text, every mention
\* of the snapshot eventually has response and thoughts written in the
\* cache, also when stop() is called during the pass; and when no reply is
\* made of whitespace only, every mention is eventually resolved in the
\* sense of the skip check.
C27_AllMentionsEventuallyAnswered ==
    /\ \A m \in Mentions :
           (loops[1].pc # "none" /\ HasEntry(m)) ~> BothWritten(m)
    /\ []NoEmptyResponse =>
           \A m \in Mentions :
               (loops[1].pc # "none" /\ HasEntry(m))
                   ~> (m \in ResolvedIds(currentStatus))

\* Both mentions of a snapshot that held two unresolved mentions have been
\* processed: each has its memory and shows response and thoughts.
C27_Witness ==
    /\ Len(currentStatus.mentions) = 2
    /\ \A m \in {1, 2} :
           /\ memRecords[m] = 1
           /\ m \in ResolvedIds(currentStatus)

(* ---------------- timer-driven MentionProcessor: claims ----------------- *)

\* C28: start() sets one timer and begins one pass at once; every further
\* pass is begun by a tick of a timer that is set, one pass per tick; and
\* once stop() has been called, whatever start() calls came before it, no
\* timer is set any more and no pass is begun.
C28_StopClearsEveryTimer ==
    /\ [][/\ nTimers' > nTimers =>
               /\ nTimerPasses' = nTimerPasses + 1
               /\ timers' = timers \cup {intervalId'}
          /\ nTimerPasses' # nTimerPasses =>
               /\ nTimerPasses' = nTimerPasses + 1
               /\ nTimers' > nTimers \/ timers # {}]_vars
    /\ [](stopCalled => timers = {})
    /\ [][(stopCalled /\ stopCalled') => nTimerPasses' = nTimerPasses]_vars

\* C29: no processMentions call rejects; a failure of getStatus or of
\* updateStatus ends the call in its catch block, logged; a failure of think
\* for a mention is logged by reviewMention, no updateStatus call is made
\* for that mention, and the for loop goes on to the next mention, so that a
\* call that ends without a getStatus or updateStatus failure has gone
\* through its whole list.
C29_PassNeverRejects ==
    /\ [](\A p \in TimerPasses :
            /\ tpasses[p].pc # "rejected"
            /\ (tpasses[p].pc = "done" /\ tpasses[p].logged \in {"none", "review"})
                   => tpasses[p].idx > tpasses[p].n)
    /\ [][\A p \in TimerPasses :
            /\ (tpasses'[p].logged = "processing" /\ tpasses[p].logged # "processing")
                   => /\ tpasses[p].pc \in {"getStatus", "update"}
                      /\ tpasses'[p].pc = "done"
            /\ (tpasses[p].pc = "think" /\ tpasses'[p] # tpasses[p])
                   => \/ /\ tpasses'[p].pc = "update"
                         /\ tpasses'[p].idx = tpasses[p].idx
                         /\ tpasses'[p].logged = tpasses[p].logged
                      \/ /\ tpasses'[p].idx = tpasses[p].idx + 1
                         /\ tpasses'[p].pc = IF tpasses'[p].idx > tpasses[p].n
                                             THEN "done" ELSE "think"
                         /\ tpasses'[p].logged \in {tpasses[p].logged, "review"}
            /\ (tpasses'[p].pc = "update" /\ tpasses[p].pc # "update")
                   => tpasses[p].pc = "think"]_vars

\* think failed for the first of two mentions and the call went on to
\* report thoughts on the second one.
C29_Witness ==
    \E p \in TimerPasses :
        /\ tpasses[p].pc = "update"
        /\ tpasses[p].logged = "review"
        /\ tpasses[p].idx = 2
        /\ tpasses[p].n = 2

(* -------------------- MentionProcessor: cursor claim -------------------- *)

RECURSIVE CursorSkips(_, _, _, _)
\* The mentions that the for loop, run as Scan runs it, passes over because
\* their id equals lastProcessedMentionId.
CursorSkips(list, i, cursor, st) ==
    IF i > Len(list)
    THEN {}
    ELSE IF cursor = list[i]
         THEN {list[i]} \cup CursorSkips(list, i + 1, cursor, st)
         ELSE IF AlreadyProcessed(st, list[i])
              THEN CursorSkips(list, i + 1, list[i], st)
              ELSE {}

\* The mentions loop l passes over by the cursor check in this step: the
\* step in which the for loop begins, or resumes after a review.
SkippedByCursor(l) ==
    IF loops[l].pc = "postCheck" /\ loops'[l].pc \in {"postProc", "sleepPoll"}
    THEN CursorSkips([i \in 1..Len(currentStatus.mentions) |->
                         currentStatus.mentions[i].id],
                     1, lastProcessedMentionId, currentStatus)
    ELSE IF loops[l].pc = "postDone" /\ loops'[l].pc \in {"postProc", "sleepPoll"}
         THEN CursorSkips(loops[l].list, loops[l].idx + 1,
                          Current(loops[l]), currentStatus)
         ELSE {}

\* C30: a mention that the for loop of processMentions passes over because
\* its id equals lastProcessedMentionId is resolved in the cached snapshot
\* at that moment, so the skip check of reviewMention would have passed over
\* it as well and it would get no generation call without the cursor check.
C30_CursorNeverLoadBearing ==
    [][\A l \in Loops : SkippedByCursor(l) \subseteq ResolvedIds(currentStatus)]_vars

(* ------------------ MentionProcessor: resolution claim ------------------ *)

\* Loop l's reviewMention returns normally in this step: the POST of its
\* final update has returned and the for loop of processMentions goes on.
ReviewReturns(l) ==
    /\ loops[l].pc = "postDone"
    /\ loops'[l].pc \in {"postProc", "sleepPoll"}

\* C31: when reviewMention returns normally for a mention that has an entry
\* in the cached snapshot, that entry has response and thoughts both truthy
\* (the skip check of reviewMention holds for it), whatever texts the two
\* generateText calls returned, the empty and the whitespace-only text
\* included.
C31_ReviewedMentionResolved ==
    [][\A l \in Loops :
          (ReviewReturns(l) /\ HasEntry(Current(loops[l])))
              => AlreadyProcessed(currentStatus', Current(loops[l]))]_vars

(* ------------- buildConversationThread: interleaved calls --------------- *)

\* Call c met a failure of the memory store while handling post p.
MemoryFailedAt(c, p) == bt[c].memErrAt = p

\* C32: when two buildConversationThread calls run interleaved, createMemory
\* is called at most once for a post, unless a memory-store call for that
\* post failed: the two calls never both find no record for a post and both
\* call createMemory for it.
C32_SharedPostCreatedOnce ==
    \A p \in Posts :
        createCalls[p] <= 1 \/ \E c \in Calls : MemoryFailedAt(c, p)

(* ------------------ RequestQueue: the delayed variant ------------------- *)

\* C33: in the variant with the fixed delay, the finish of a task puts the
\* drain into the delay and starts nothing; a task starts only when the
\* delay of the active drain elapses or when add() finds no drain active;
\* the processing flag is cleared only when a delay elapses; during the
\* delay the flag is set and no task runs, so add() during the delay only
\* enqueues; and there is never more than one drain.
C33_DelayBetweenTasks ==
    /\ [](rqVariant = "delayed" =>
            /\ ActiveDrains <= 1
            /\ dead = 0
            /\ processing <=> ActiveDrains = 1)
    /\ [][rqVariant = "delayed" =>
            /\ settled' # settled =>
                   delaying' = 1 /\ started' = started /\ processing'
            /\ started' # started =>
                   \/ delaying = 1 /\ delaying' = 0
                   \/ ~processing /\ nAdded' = nAdded + 1
            /\ (processing /\ ~processing') =>
                   delaying = 1 /\ delaying' = 0
            /\ (nAdded' # nAdded /\ delaying = 1) =>
                   /\ queue' = Append(queue, nAdded')
                   /\ started' = started
                   /\ delaying' = 1
                   /\ processing']_vars

\* In the delayed variant every earlier task has settled, the drain is in
\* its delay and a task added since waits in the queue.
C33_Witness ==
    /\ rqVariant = "delayed"
    /\ delaying = 1
    /\ nAdded >= 2
    /\ queue = <<nAdded>>
    /\ Len(settled) = nAdded - 1
    /\ executing = {}

(* ---------------- buildConversationThread: thread length ---------------- *)

\* For every post of the thread that has a parent, the fetch of the parent
\* yielded it; and no memory-store call failed.
EveryCallSucceeded(r) ==
    /\ r.memErrAt = NoPost
    /\ r.fetchErrAt = NoPost
    /\ \A i \in 1..Len(r.thread) :
           inReplyTo[r.thread[i]] # NoPost => r.thread[i] \in r.fetchedOk

\* The smaller of two numbers.
Least(a, b) == IF a <= b THEN a ELSE b

\* C34: for a linear reply chain of N posts with every fetch and memory
\* operation succeeding, the returned thread is the leaf and its nearest
\* ancestors, min(N, maxDepth) posts in all, oldest first; with maxDepth = 0
\* the call returns at once with an empty thread, no post visited and no
\* memory operation made.
C34_ThreadLength ==
    \A c \in Calls :
        LET r == bt[c]
            chain == ChainFrom(r.leaf, {})
        IN  /\ ( /\ r.pc = "resolved"
                 /\ r.leaf # NoPost
                 /\ EndsAtRoot(r.leaf, {})
                 /\ EveryCallSucceeded(r) )
               => /\ Len(r.thread) = Least(Len(chain), r.maxDepth)
                  /\ r.thread = Reverse(SubSeq(chain, 1, Len(r.thread)))
            /\ (r.pc # "idle" /\ r.maxDepth = 0)
               => /\ r.pc = "resolved"
                  /\ r.thread = <<>>
                  /\ r.visited = {}
                  /\ \A p \in Posts : createCalls[p] = 0

\* A chain of three posts was walked with maxDepth 2: the thread is the
\* parent and the leaf, and the fetched grandparent was left out.
C34_Witness ==
    \E c \in Calls :
        /\ bt[c].pc = "resolved"
        /\ bt[c].leaf # NoPost
        /\ EndsAtRoot(bt[c].leaf, {})
        /\ EveryCallSucceeded(bt[c])
        /\ Len(ChainFrom(bt[c].leaf, {})) = 3
        /\ bt[c].maxDepth = 2
        /\ bt[c].thread = <<inReplyTo[bt[c].leaf], bt[c].leaf>>

(* -------------- buildConversationThread: memory failures ---------------- *)

\* C35: a failure of getMemoryById, ensureConnection or createMemory while
\* the leaf is handled rejects the call, and nothing else rejects it; the
\* same failure while an ancestor is handled ends the walk, and the call
\* resolves with the thread built so far, whose first post is that ancestor;
\* the failing step stores no record, so a record the store holds for the
\* post was not created by this call.
C35_MemoryFailureLeafOrAncestor ==
    /\ [](\A c \in Calls :
            LET r == bt[c] IN
            /\ r.pc = "rejected" => (r.memErrAt # NoPost /\ r.memErrAt = r.leaf)
            /\ r.memErrAt # NoPost =>
                   IF r.memErrAt = r.leaf
                   THEN r.pc = "rejected"
                   ELSE /\ r.pc = "resolved"
                        /\ Len(r.thread) >= 2
                        /\ r.thread[1] = r.memErrAt
                        /\ r.thread[Len(r.thread)] = r.leaf
                        /\ r.memErrAt \in memories
                               => createCalls[r.memErrAt] = 0)
    /\ [][\A c \in Calls :
            bt'[c].memErrAt # bt[c].memErrAt => memories' = memories]_vars

\* createMemory failed for the parent of the leaf: the call resolved with
\* the parent and the leaf in the thread and no record for the parent.
C35_Witness ==
    \E c \in Calls :
        /\ bt[c].pc = "resolved"
        /\ bt[c].memErrAt # NoPost
        /\ bt[c].memErrAt = inReplyTo[bt[c].leaf]
        /\ bt[c].thread = <<bt[c].memErrAt, bt[c].leaf>>
        /\ createCalls[bt[c].memErrAt] = 1
        /\ bt[c].memErrAt \notin memories

(* -------------------- RequestQueue: re-entrant add ---------------------- *)

\* Some running task awaits the promise of a task it added to its own queue.
SomeTaskWaits == \E t \in TaskIds : waitsFor[t] # 0

\* C36: while a task runs, another task starts only in the step in which
\* the running one finishes; so a task that awaits the promise of a task it
\* added to the same queue stays running with its promise pending, the task
\* it added never starts, and from then on no task of the queue starts or
\* settles.
C36_ReentrantAddDeadlocks ==
    /\ [][started' # started => (executing = {} \/ settled' # settled)]_vars
    /\ [](\A t \in TaskIds :
            waitsFor[t] # 0 =>
                /\ t \in executing
                /\ promise[t] = "pending"
                /\ promise[waitsFor[t]] = "pending"
                /\ \A i \in 1..Len(started) : started[i] # waitsFor[t])
    /\ [][SomeTaskWaits => (started' = started /\ settled' = settled)]_vars

\* The first task awaits the third, which waits in the queue behind the
\* second.
C36_Witness ==
    /\ waitsFor[1] = 3
    /\ queue = <<2, 3>>
    /\ executing = {1}

(* --------------------- updateStatus: failed calls ----------------------- *)

\* Call c's POST fails in this step.
PostFails(c) == usCalls[c].pc = "post" /\ usCalls'[c].pc = "failed"

\* Call c's GET fails in this step.
GetFails(c) == usCalls[c].pc = "get" /\ usCalls'[c].pc = "failed"

\* C37: when the POST of a merge fails, updateStatus throws and the cached
\* snapshot stays as merged: it is the body that was sent, with the fields
\* of the partial and the lastUpdate taken at the merge, while the remote
\* snapshot is left as it was, so the two differ.  When the GET of a refresh
\* fails, updateStatus throws and the cached snapshot is the one the call
\* found: no step from the call's begin to its failure changes it.
C37_FailedCallsAndTheCache ==
    [][\A c \in UpdateCalls :
          /\ PostFails(c) =>
                 /\ usCache' = usCache
                 /\ usCache' = usCalls[c].body
                 /\ \A x \in StatusFields :
                        usCalls[c].partial.f[x] # Absent
                            => usCache'.f[x] = usCalls[c].n
                 /\ usCache'.lastUpdate # Absent
                 /\ usRemote' = usRemote
                 /\ usRemote' # usCache'
                 /\ usLog'[usCalls[c].n].result = "failed"
          /\ GetFails(c) =>
                 /\ usCache' = usCache
                 /\ usRemote' = usRemote
                 /\ usLog'[usCalls[c].n].result = "failed"
          /\ (usCalls'[c].pc = "get" /\ usCalls'[c].n = Len(usLog'))
                 => usCache' = usCache]_vars

\* A merge whose POST failed after the clock had moved on: the cache holds
\* the merged currentTask under a lastUpdate newer than the cache had, and
\* the remote snapshot holds neither.
C37_Witness ==
    /\ usCalls[1].pc = "failed"
    /\ IsMerge(usCalls[1].partial)
    /\ usCache = usCalls[1].body
    /\ usCache.f["currentTask"] = usCalls[1].n
    /\ usCache.lastUpdate > 1
    /\ usRemote.f["currentTask"] # usCalls[1].n

(* ------------------- MentionProcessor: the flag claim ------------------- *)

\* C38: in every state in which no processMentions loop is active,
\* isProcessing is false, however the loops that were started have ended.
C38_FlagClearWhenNoLoop ==
    ActiveLoops = {} => ~isProcessing

(* ------------------------- RedditClient: stop --------------------------- *)

\* RedditClient.stop() has been called: it sets the flag of the client's
\* own post client, which nothing else sets and nothing clears.
RedditStopCalled == stopProcessing["client"]

\* The loop of post client i evaluates its while condition in this step.
AtLoopCheck(i) ==
    /\ postingLoop[i].pc \in {"sleep", "sleepError"}
    /\ postingLoop'[i] # postingLoop[i]

\* The loop of post client i calls generateNewPost in this step.
LoopGenerates(i) ==
    /\ postingLoop[i].pc = "cacheGet"
    /\ generated'[i] > generated[i]

\* C39: once RedditClient.stop() has been called, each posting loop started
\* by RedditClient.start(), the provider's and the client's own, leaves its
\* while loop the next time it evaluates the condition, and no loop calls
\* generateNewPost any more.
C39_StopEndsEveryPostingLoop ==
    [][RedditStopCalled =>
          \A i \in PostClients :
              /\ AtLoopCheck(i) => postingLoop'[i].pc = "exited"
              /\ ~LoopGenerates(i)]_vars
====
